---- MODULE Spec2Model ----
(***************************************************************************)
(* Model of the job orchestration engine of app.py: the bounded admission  *)
(* queue q, the job table jobs with its ordering index jobs_order, the     *)
(* single worker thread (worker_loop / run_and_log), the request handlers  *)
(* create_job, cancel_job, delete_job, job_file and list_jobs, and the     *)
(* pure function hint_from_log.                                            *)
(*                                                                         *)
(* Threads.  worker_loop runs in its own daemon thread.  create_job is an  *)
(* "async def" handler without any await after the request body has been   *)
(* read, so its calls run one at a time on the event loop; cancel_job,     *)
(* delete_job, job_file and list_jobs are plain "def" handlers and run on  *)
(* threadpool threads.  All of them interleave statement by statement.     *)
(*                                                                         *)
(* A job dict is a heap object: rec[id] is the dict created for job id,    *)
(* and jobs is the set of ids that are keys of the table.  A thread that   *)
(* holds a reference to a dict keeps writing to it after the id has been   *)
(* removed from the table.                                                 *)
(***************************************************************************)
EXTENDS Integers, Sequences, FiniteSets, TLC

\* ---------------------------------------------------------------- bounds
MaxSubmits == 3     \* create_job calls in a run of Spec
FileSubmits == 2    \* create_job calls in a run of SpecFiles
MaxDeletes == 1     \* delete_job calls in a run of Spec
MaxOut == 1         \* output lines the external processes of one job print
AdmSubmits == 5     \* create_job calls in a run of SpecAdmission
CanSubmits == 2     \* create_job calls in a run of SpecCancel
LogSubmits == 2     \* create_job calls in a run of SpecLog
LogOut == 2         \* output lines per job in a run of SpecLog
LiveSubmits == 2    \* create_job calls in a run of SpecLive
ReadSubmits == 2    \* create_job calls in a run of SpecRead
DelSubmits == 2     \* create_job calls in a run of SpecDelete
DelDeletes == 2     \* delete_job calls in a run of SpecDelete
ListSubmits == 4    \* create_job calls in a run of SpecList
MaxHintLines == 3   \* lines of a log handed to hint_from_log in SpecHint
MaxReads == 1       \* job_file and list_jobs calls in a run of SpecRead
StageSubmits == 2   \* create_job calls in a run of SpecStages
RemSubmits == 2     \* create_job calls in a run of SpecRemove
RemDeletes == 1     \* delete_job calls in a run of SpecRemove
HintSubmits == 2    \* create_job calls in a run of SpecHintRun
MaxJobId == 6       \* job ids that occur in a command line

\* Free space (MB) the preflight may observe on the two directories: just
\* below and at the thresholds of lines 362-363.
FreeDownloadMB == {799, 800}
FreeTempMB == {199, 200}

\* Exit codes an external process may return.
ExitCodes == {0, 1}

\* Lines an external tool may print (after rstrip).
OutLines == {"progress"}

\* Request bodies: vod_id and threads as character sequences, include_chat.
VodIds == {<<"1", "2">>, <<"1", "a">>, <<>>}
\* Numeric vod ids: one without and one with the digits 429.
PlainVodIds == {<<"1", "2">>}
RateVodIds == {<<"1", "2">>, <<"2", "4", "2", "9">>}
ThreadsRaw == {<<"2">>, <<"x">>}

VARIABLES
    jobs,        \* keys of the job table (app.py: jobs)
    rec,         \* heap: job id -> job dict
    jobs_order,  \* ordering index, newest first
    q,           \* admission queue: sequence of payloads
    disk,        \* set of paths that exist on disk
    w,           \* worker thread: position and locals
    cj,          \* create_job call on the event loop: position and locals
    dj,          \* delete_job call on a threadpool thread: position and locals
    clock,       \* wall clock, seconds
    env,         \* what the environment will still do: calls left, bodies it sends
    hist,        \* history: acceptance order, run order, submission outcomes
    jf,          \* job_file call on a threadpool thread: position and locals
    lj,          \* list_jobs call on a threadpool thread: position and locals
    call         \* a call of a pure function: its argument and its result

vars == <<jobs, rec, jobs_order, q, disk, w, cj, dj, clock, env, hist, jf, lj, call>>

\* ---------------------------------------------------------------- config
\* app.py lines 31-33 read the three capacities from the process environment
\* (defaults 3, 30 and 1200).  The model takes them from env; the
\* specifications below run small registry and log capacities so that
\* eviction and truncation happen within a few jobs.
MAX_QUEUE == env.MAX_QUEUE
MAX_JOBS_IN_MEMORY == env.MAX_JOBS_IN_MEMORY
KEEP_LOG_LINES == env.KEEP_LOG_LINES

\* ---------------------------------------------------------------- strings
\* A string is the sequence of its segments between "\n" characters:
\* "" is <<"">>, "a\nb" is <<"a", "b">>, "\nx" is <<"", "x">>.
EmptyStr == <<"">>

RECURSIVE Flatten(_)
Flatten(ss) == IF ss = <<>> THEN <<>> ELSE Head(ss) \o Flatten(Tail(ss))

\* str.splitlines(): the segments, without a final empty one.
splitlines(s) ==
    LET segs == IF s[Len(s)] = "" THEN SubSeq(s, 1, Len(s) - 1) ELSE s
    IN  [i \in 1..Len(segs) |-> <<segs[i]>>]

\* "\n".join(lines)
join(lines) == IF lines = <<>> THEN EmptyStr ELSE Flatten(lines)

\* lines[-n:]
LastN(lines, n) ==
    IF Len(lines) <= n THEN lines ELSE SubSeq(lines, Len(lines) - n + 1, Len(lines))

Digits == {"0", "1", "2", "3", "4", "5", "6", "7", "8", "9"}

\* re.fullmatch(r"\d+", s)
IsNumeric(s) == Len(s) > 0 /\ \A i \in 1..Len(s) : s[i] \in Digits

\* int(s) succeeds (the model's bodies carry no sign, blank or underscore)
IsInt(s) == IsNumeric(s)

\* ---------------------------------------------------------------- paths
\* A path is <<job id, kind>>; the empty path "" is <<>>.
NoPath == <<>>
video_path(id) == <<id, "video.mp4">>
chat_json(id) == <<id, "chat.json.gz">>
chat_mp4(id) == <<id, "chat.mp4">>
final_path(id) == <<id, "final.mp4">>
ArtifactPaths(id) == {video_path(id), chat_json(id), chat_mp4(id), final_path(id)}

Range(s) == {s[i] : i \in 1..Len(s)}

\* cleanup_paths(paths): the disk after removing every path that exists.
cleanup_paths(d, paths) == d \ (Range(paths) \ {NoPath})

\* cleanup_job_files(job): the paths it removes.
JobFilePaths(job) ==
    IF job.path # NoPath THEN Append(job.files, job.path) ELSE job.files

\* ------------------------------------------------- command builders
\* Optional values: None is <<>>, a value v is <<v>>.
None == <<>>
Some(v) == <<v>>

\* Line 25: the temp directory of the configuration.
TD_TEMP_DIR == "TD_TEMP_DIR"

\* if x: for an Optional[str]
Truthy(o) == o # None /\ o[1] # ""

\* str(x) for a float counted in tenths: 2 is "0.2", 10 is "1.0".
StrFloat(t) == ToString(t \div 10) \o "." \o ToString(t % 10)

\* Mutant: the bandwidth is tested like the strings.
td_videodownload_bandwidth_truthy(a) ==
    <<"TwitchDownloaderCLI", "videodownload", "--id", a.vod_id, "-o", a.out_path>>
    \o (IF a.quality # "" THEN <<"--quality", a.quality>> ELSE <<>>)
    \o <<"--threads", ToString(a.threads)>>
    \o (IF a.bandwidth # None /\ a.bandwidth[1] # 0
        THEN <<"--bandwidth", ToString(a.bandwidth[1])>> ELSE <<>>)
    \o (IF Truthy(a.beginning) THEN <<"--beginning", a.beginning[1]>> ELSE <<>>)
    \o (IF Truthy(a.ending) THEN <<"--ending", a.ending[1]>> ELSE <<>>)
    \o <<"--temp-path", TD_TEMP_DIR>>

\* Lines 229-249.
td_videodownload(a) ==
    <<"TwitchDownloaderCLI", "videodownload", "--id", a.vod_id, "-o", a.out_path>>
    \o (IF a.quality # "" THEN <<"--quality", a.quality>> ELSE <<>>)
    \o <<"--threads", ToString(a.threads)>>
    \o (IF a.bandwidth # None THEN <<"--bandwidth", ToString(a.bandwidth[1])>> ELSE <<>>)
    \o (IF Truthy(a.beginning) THEN <<"--beginning", a.beginning[1]>> ELSE <<>>)
    \o (IF Truthy(a.ending) THEN <<"--ending", a.ending[1]>> ELSE <<>>)
    \o <<"--temp-path", TD_TEMP_DIR>>

\* Lines 252-272.
td_chatdownload(a) ==
    <<"TwitchDownloaderCLI", "chatdownload", "--id", a.vod_id, "-o", a.out_path,
      "--compression", "Gzip", "-E", "--threads", ToString(a.threads),
      "--temp-path", TD_TEMP_DIR>>
    \o (IF Truthy(a.beginning) THEN <<"--beginning", a.beginning[1]>> ELSE <<>>)
    \o (IF Truthy(a.ending) THEN <<"--ending", a.ending[1]>> ELSE <<>>)

\* Lines 275-301.
td_chatrender(a) ==
    <<"TwitchDownloaderCLI", "chatrender", "-i", a.chat_json_path, "-o", a.out_path,
      "-w", ToString(a.chat_width), "-h", ToString(a.chat_height),
      "--font-size", ToString(a.font_size), "--framerate", ToString(a.framerate),
      "--update-rate", StrFloat(a.update_rate),
      "--background-color", a.background_color,
      "--temp-path", TD_TEMP_DIR, "--readable-colors", "true">>
    \o (IF a.outline THEN <<"--outline">> ELSE <<>>)

\* Lines 304-334.
ffmpeg_side_by_side(a) ==
    LET h == ToString(a.height)
        cw == ToString(a.chat_width)
        filter_complex ==
            "[0:v]scale=1920:" \o h \o ":force_original_aspect_ratio=decrease,"
            \o "pad=1920:" \o h \o ":(ow-iw)/2:(oh-ih)/2[vid];"
            \o "[1:v]scale=" \o cw \o ":" \o h \o ":force_original_aspect_ratio=decrease,"
            \o "pad=" \o cw \o ":" \o h \o ":(ow-iw)/2:(oh-ih)/2[chat];"
            \o "[vid][chat]hstack=inputs=2[v]"
    IN  <<"ffmpeg", "-y", "-i", a.video_path, "-i", a.chat_path,
          "-filter_complex", filter_complex, "-map", "[v]", "-map", "0:a?",
          "-c:v", "libx264", "-preset", "veryfast", "-crf", ToString(a.crf),
          "-pix_fmt", "yuv420p", "-c:a", "aac", "-b:a", "160k",
          "-movflags", "+faststart", a.out_path>>

\* ------------------------------------------------- command line
\* "".join(chars)
RECURSIVE Concat(_)
Concat(ss) == IF ss = <<>> THEN "" ELSE Head(ss) \o Concat(Tail(ss))

\* " ".join(words)
RECURSIVE JoinSpace(_)
JoinSpace(ws) ==
    IF ws = <<>> THEN ""
    ELSE IF Len(ws) = 1 THEN ws[1]
    ELSE ws[1] \o " " \o JoinSpace(Tail(ws))

\* Lines 1448-1451: os.path.join(DOWNLOAD_DIR, f"{vod_id}-{job_id}.<kind>")
PathText(vod_id, path) ==
    "DOWNLOAD_DIR/" \o Concat(vod_id) \o "-" \o ToString(path[1]) \o "." \o path[2]

\* The words of the commands that hold a character shlex.quote does not take
\* as safe ([, ], ;, (, ), ?, #): the filter graph, "[v]", "0:a?" and the colour.
Unsafe(cmd, i) ==
    \/ cmd[i] \in {"[v]", "0:a?", "#111111"}
    \/ i > 1 /\ cmd[i - 1] = "-filter_complex"

\* Line 187: shlex.quote(x) for x in cmd
Quoted(cmd) ==
    [i \in 1..Len(cmd) |-> IF Unsafe(cmd, i) THEN "'" \o cmd[i] \o "'" ELSE cmd[i]]

\* Lines 376-397: the command of stage number si for a job, built from the
\* payload of a request that sets quality 1080p60, threads 2, no bandwidth, no
\* beginning and ending, chat width 420, font size 18, framerate 24, update
\* rate 0.2, background #111111, no outline and crf 23.
Command(si, vod_id, id) ==
    CASE si = 1 -> td_videodownload(
                       [vod_id |-> Concat(vod_id),
                        out_path |-> PathText(vod_id, video_path(id)),
                        quality |-> "1080p60", threads |-> 2, bandwidth |-> None,
                        beginning |-> None, ending |-> None])
      [] si = 2 -> td_chatdownload(
                       [vod_id |-> Concat(vod_id),
                        out_path |-> PathText(vod_id, chat_json(id)),
                        threads |-> 2, beginning |-> None, ending |-> None])
      [] si = 3 -> td_chatrender(
                       [chat_json_path |-> PathText(vod_id, chat_json(id)),
                        out_path |-> PathText(vod_id, chat_mp4(id)),
                        chat_width |-> 420, chat_height |-> 1080, font_size |-> 18,
                        framerate |-> 24, update_rate |-> 2,
                        background_color |-> "#111111", outline |-> FALSE])
      [] OTHER -> ffmpeg_side_by_side(
                       [video_path |-> PathText(vod_id, video_path(id)),
                        chat_path |-> PathText(vod_id, chat_mp4(id)),
                        out_path |-> PathText(vod_id, final_path(id)),
                        chat_width |-> 420, height |-> 1080, crf |-> 23])

\* Line 187: "CMD: " + " ".join(shlex.quote(x) for x in cmd)
CmdText(si, vod_id, id) == "CMD: " \o JoinSpace(Quoted(Command(si, vod_id, id)))

\* "429" in s, for a sequence of characters.
Has429(chars) ==
    \E i \in 1..(Len(chars) - 2) :
        chars[i] = "4" /\ chars[i + 1] = "2" /\ chars[i + 2] = "9"

\* The command lines that hold the text 429: the other words of the commands
\* hold no 429, and the vod id stands between characters that are not digits.
RateCommands ==
    {CmdText(si, v, id) : si \in 1..4, v \in {x \in RateVodIds : Has429(x)},
                          id \in 1..MaxJobId}

\* ---------------------------------------------------------------- log
\* append_log(job, line): line is a string (the stage header starts with "\n").
append_log(job, line) ==
    LET lines == Append(splitlines(job.log), line)
        kept == IF Len(lines) > KEEP_LOG_LINES THEN LastN(lines, KEEP_LOG_LINES) ELSE lines
    IN  [job EXCEPT !.log = join(kept), !.last_log_line = line]

StageHeader(stage) == <<"", "=== " \o stage \o " ===">>
CmdLine(si, job) == <<CmdText(si, job.vod_id, job.job_id)>>
CancelNotice == <<"Cancel requested: terminating process group">>

\* Lines an external tool may print that hold a text hint_from_log looks for,
\* and one that holds none.
HintLines ==
    {"Couldn't find a valid ICU package installed",
     "see https://aka.ms/dotnet-missing-libicu",
     "exceeded the limit of 2GB",
     "Temporary storage volume /tmp exceeded",
     "Quality not found",
     "Unable to find requested quality",
     "HTTP 429",
     "Too Many Requests",
     "progress"}

\* str.lower() of a line.
Lower(seg) ==
    CASE seg = "Couldn't find a valid ICU package installed"
             -> "couldn't find a valid icu package installed"
      [] seg = "Temporary storage volume /tmp exceeded"
             -> "temporary storage volume /tmp exceeded"
      [] seg = "Quality not found" -> "quality not found"
      [] seg = "Unable to find requested quality" -> "unable to find requested quality"
      [] seg = "HTTP 429" -> "http 429"
      [] seg = "Too Many Requests" -> "too many requests"
      [] seg = "exceeded the limit of 2GB" -> "exceeded the limit of 2gb"
      [] OTHER -> seg

\* The texts of lines 148-157 that occur in a line (pat in seg).
Sigs(seg) ==
    CASE seg = "Couldn't find a valid ICU package installed"
             -> {"Couldn't find a valid ICU package installed"}
      [] seg = "see https://aka.ms/dotnet-missing-libicu" -> {"dotnet-missing-libicu"}
      [] seg = "exceeded the limit of 2GB" -> {"exceeded the limit of 2GB"}
      [] seg = "temporary storage volume /tmp exceeded"
             -> {"temporary storage volume /tmp exceeded"}
      [] seg = "Quality not found" -> {"Quality not found"}
      [] seg = "Unable to find requested quality" -> {"Unable to find requested quality"}
      [] seg = "HTTP 429" -> {"429"}
      [] seg = "http 429" -> {"429"}
      [] seg = "Too Many Requests" -> {"Too Many Requests"}
      [] OTHER -> IF seg \in RateCommands THEN {"429"} ELSE {}

\* pat in log: no text looked for holds a "\n", so it lies within one line.
LogHas(log, pat) == \E i \in 1..Len(log) : pat \in Sigs(log[i])

\* log.lower()
LowerLog(log) == [i \in 1..Len(log) |-> Lower(log[i])]

\* The messages of lines 149-157 (the first without the two backquotes the
\* source puts around libicu-dev).
HintIcu == "Missing ICU. Install libicu-dev in Dockerfile and redeploy."
HintTmp == "You hit Render's /tmp 2GB cap. Make sure DOWNLOAD_DIR and TD_TEMP_DIR are NOT under /tmp, and use chunks (1 hour recommended on Free)."
HintQuality == "That quality isn't available for this VOD. Try 1080p (not 1080p60) or Auto."
HintRate == "Twitch rate-limited you. Keep threads=2 and consider bandwidth (e.g., 4000 KiB/s)."

\* Mutant: the rate-limit texts are looked for first.
hint_from_log_rate_first(log) ==
    IF log = EmptyStr THEN ""
    ELSE IF LogHas(log, "429") \/ LogHas(log, "Too Many Requests") THEN HintRate
    ELSE IF LogHas(log, "Couldn't find a valid ICU package installed")
            \/ LogHas(log, "dotnet-missing-libicu") THEN HintIcu
    ELSE IF LogHas(log, "exceeded the limit of 2GB")
            \/ LogHas(LowerLog(log), "temporary storage volume /tmp exceeded") THEN HintTmp
    ELSE IF LogHas(log, "Quality not found")
            \/ LogHas(log, "Unable to find requested quality") THEN HintQuality
    ELSE ""

hint_from_log(log) ==
    IF log = EmptyStr THEN ""
    ELSE IF LogHas(log, "Couldn't find a valid ICU package installed")
            \/ LogHas(log, "dotnet-missing-libicu") THEN HintIcu
    ELSE IF LogHas(log, "exceeded the limit of 2GB")
            \/ LogHas(LowerLog(log), "temporary storage volume /tmp exceeded") THEN HintTmp
    ELSE IF LogHas(log, "Quality not found")
            \/ LogHas(log, "Unable to find requested quality") THEN HintQuality
    ELSE IF LogHas(log, "429") \/ LogHas(log, "Too Many Requests") THEN HintRate
    ELSE ""

\* ---------------------------------------------------------------- state
Stages(include_chat) ==
    IF include_chat
    THEN <<"VideoDownload", "ChatDownload", "ChatRender", "Combine (Video + Chat)">>
    ELSE <<"VideoDownload">>

\* The file the external process of stage number si writes.
StageOutput(id, si) ==
    CASE si = 1 -> video_path(id)
      [] si = 2 -> chat_json(id)
      [] si = 3 -> chat_mp4(id)
      [] OTHER -> final_path(id)

\* The job dict create_job builds (lines 1453-1469).
NewJob(id, vod_id, include_chat) ==
    [ job_id |-> id,
      vod_id |-> vod_id,
      status |-> "queued",
      stage |-> "queued",
      include_chat |-> include_chat,
      path |-> NoPath,
      files |-> <<video_path(id), chat_json(id), chat_mp4(id), final_path(id)>>,
      log |-> EmptyStr,
      last_log_line |-> EmptyStr,
      hint |-> "",
      error |-> "",
      started_at |-> 0,
      finished_at |-> 0,
      cancel_requested |-> FALSE,
      has_proc_pid |-> FALSE ]

\* Mutant: the queue never counts as full.
QFull_Never(queue) == FALSE

\* Mutant: the capacity test off by one.
QFull_OffByOne(queue) == Len(queue) > MAX_QUEUE

\* q.full()
QFull(queue) == Len(queue) >= MAX_QUEUE

\* now_ts(): the clock read; time.time() is positive and does not go back.
\* The model's clock advances by a second with every entry the worker takes.
now_ts == clock

WorkerIdle == [pc |-> "get", job |-> 0, include_chat |-> FALSE, si |-> 0,
               nout |-> 0, rc |-> 0, exc |-> "", free |-> <<>>]
CreateIdle == [pc |-> "idle", job_id |-> 0, vod_id |-> <<>>, include_chat |-> FALSE,
               old |-> 0, next |-> 1, resp |-> ""]
DeleteIdle == [pc |-> "idle", job_id |-> 0]
JobFileIdle == [pc |-> "idle", job_id |-> 0, job |-> 0, resp |-> ""]
ListIdle == [pc |-> "idle", i |-> 0, out |-> <<>>, dirty |-> FALSE, always |-> {}]
NoCall == [fn |-> "", arg |-> <<>>, ret |-> "", done |-> TRUE]

HistInit == [accepted |-> <<>>, ran |-> <<>>, results |-> <<>>, deq |-> 0,
             cancelQueued |-> {}, cancelRunning |-> {}, finished |-> {},
             delete500 |-> FALSE, appended |-> <<>>, delreq |-> <<>>,
             stages |-> <<>>, removedQueued |-> {}]

\* A list_jobs call that is under way has seen the table or the ordering index
\* change.
Disturb(l) == IF l.pc = "idle" THEN l ELSE [l EXCEPT !.dirty = TRUE]

\* Dicts some thread or the table still refers to; the others are garbage.
Held(js, wk, c, d) == js \cup {wk.job, c.old, d.job_id}
Referenced(js, wk, c, d) == Held(js, wk, c, d) \cup {jf.job}
Collect(r, live) == [id \in (DOMAIN r) \cap live |-> r[id]]

InitProgram ==
    /\ jobs = {}
    /\ rec = [id \in {} |-> 0]
    /\ jobs_order = <<>>
    /\ q = <<>>
    /\ disk = {}
    /\ w = WorkerIdle
    /\ cj = CreateIdle
    /\ dj = DeleteIdle
    /\ clock = 1
    /\ hist = HistInit
    /\ jf = JobFileIdle
    /\ lj = ListIdle

InitCommon ==
    /\ InitProgram
    /\ call = NoCall

\* The environment of Spec: a queue of 2, a registry of 2 jobs, every kind of
\* request, jobs without chat.
Init ==
    /\ InitCommon
    /\ env = [MAX_QUEUE |-> 2, MAX_JOBS_IN_MEMORY |-> 2, KEEP_LOG_LINES |-> 4,
              submits |-> MaxSubmits, deletes |-> MaxDeletes,
              invalid |-> TRUE, chat |-> {FALSE}, trace |-> FALSE,
              free_download |-> FreeDownloadMB, free_temp |-> FreeTempMB,
              exits |-> ExitCodes, out |-> MaxOut, lines |-> OutLines,
              reads |-> 0, tracelog |-> FALSE, tracerun |-> FALSE, vods |-> PlainVodIds]

\* The environment of SpecFiles: jobs with and without chat, a registry of 1
\* job, every kind of request.
InitFiles ==
    /\ InitCommon
    /\ env = [MAX_QUEUE |-> 2, MAX_JOBS_IN_MEMORY |-> 1, KEEP_LOG_LINES |-> 4,
              submits |-> FileSubmits, deletes |-> MaxDeletes,
              invalid |-> FALSE, chat |-> BOOLEAN, trace |-> FALSE,
              free_download |-> FreeDownloadMB, free_temp |-> FreeTempMB,
              exits |-> ExitCodes, out |-> MaxOut, lines |-> OutLines,
              reads |-> 0, tracelog |-> FALSE, tracerun |-> FALSE, vods |-> PlainVodIds]

\* The environment of SpecAdmission: the default queue of 3, valid submissions
\* only, enough free disk space.
InitAdmission ==
    /\ InitCommon
    /\ env = [MAX_QUEUE |-> 3, MAX_JOBS_IN_MEMORY |-> 3, KEEP_LOG_LINES |-> 4,
              submits |-> AdmSubmits, deletes |-> 0,
              invalid |-> FALSE, chat |-> {FALSE}, trace |-> TRUE,
              free_download |-> {800}, free_temp |-> {200},
              exits |-> ExitCodes, out |-> MaxOut, lines |-> OutLines,
              reads |-> 0, tracelog |-> FALSE, tracerun |-> FALSE, vods |-> PlainVodIds]

\* The environment of SpecCancel: submissions and cancel requests, recorded;
\* enough free disk space and external tools that succeed.
InitCancel ==
    /\ InitCommon
    /\ env = [MAX_QUEUE |-> 2, MAX_JOBS_IN_MEMORY |-> 1, KEEP_LOG_LINES |-> 4,
              submits |-> CanSubmits, deletes |-> 0,
              invalid |-> FALSE, chat |-> BOOLEAN, trace |-> TRUE,
              free_download |-> {800}, free_temp |-> {200},
              exits |-> {0}, out |-> MaxOut, lines |-> OutLines,
              reads |-> 0, tracelog |-> FALSE, tracerun |-> FALSE, vods |-> PlainVodIds]

\* The environment of SpecLog: jobs with chat whose tools print lines, some of
\* them blank, into a log that keeps 3 lines; the appended lines are recorded.
InitLog ==
    /\ InitCommon
    /\ env = [MAX_QUEUE |-> 1, MAX_JOBS_IN_MEMORY |-> 1, KEEP_LOG_LINES |-> 3,
              submits |-> LogSubmits, deletes |-> 0,
              invalid |-> FALSE, chat |-> {TRUE}, trace |-> FALSE,
              free_download |-> {800}, free_temp |-> {200},
              exits |-> {0}, out |-> LogOut, lines |-> OutLines \cup {""},
              reads |-> 0, tracelog |-> TRUE, tracerun |-> FALSE, vods |-> PlainVodIds]

\* The environment of SpecLive: a queue and a registry of 1 job, submissions
\* and cancel requests, every kind of failure (preflight, exit code, cancel,
\* a download removed under the worker by an eviction).
InitLive ==
    /\ InitCommon
    /\ env = [MAX_QUEUE |-> 1, MAX_JOBS_IN_MEMORY |-> 1, KEEP_LOG_LINES |-> 4,
              submits |-> LiveSubmits, deletes |-> 0,
              invalid |-> FALSE, chat |-> {FALSE}, trace |-> FALSE,
              free_download |-> FreeDownloadMB, free_temp |-> FreeTempMB,
              exits |-> ExitCodes, out |-> MaxOut, lines |-> OutLines,
              reads |-> 0, tracelog |-> FALSE, tracerun |-> FALSE, vods |-> PlainVodIds]

\* The environment of SpecRead: a queue and a registry of 1 job, submissions,
\* one delete, list_jobs and job_file calls; jobs fail in the preflight only.
InitRead ==
    /\ InitCommon
    /\ env = [MAX_QUEUE |-> 1, MAX_JOBS_IN_MEMORY |-> 1, KEEP_LOG_LINES |-> 4,
              submits |-> ReadSubmits, deletes |-> MaxDeletes,
              invalid |-> FALSE, chat |-> {FALSE}, trace |-> FALSE,
              free_download |-> FreeDownloadMB, free_temp |-> {200},
              exits |-> {0}, out |-> MaxOut, lines |-> OutLines,
              reads |-> MaxReads, tracelog |-> FALSE, tracerun |-> FALSE, vods |-> PlainVodIds]

\* The environment of SpecList: a registry of 2 jobs and a queue that holds
\* every submission, one delete and one list_jobs call.
InitList ==
    /\ InitCommon
    /\ env = [MAX_QUEUE |-> ListSubmits, MAX_JOBS_IN_MEMORY |-> 2, KEEP_LOG_LINES |-> 4,
              submits |-> ListSubmits, deletes |-> MaxDeletes,
              invalid |-> FALSE, chat |-> {FALSE}, trace |-> FALSE,
              free_download |-> {800}, free_temp |-> {200},
              exits |-> {0}, out |-> MaxOut, lines |-> OutLines,
              reads |-> MaxReads, tracelog |-> FALSE, tracerun |-> FALSE, vods |-> PlainVodIds]

\* The environment of SpecDelete: a queue and a registry of 1 job, submissions
\* and two delete calls, recorded; enough free disk space.
InitDelete ==
    /\ InitCommon
    /\ env = [MAX_QUEUE |-> 1, MAX_JOBS_IN_MEMORY |-> 1, KEEP_LOG_LINES |-> 4,
              submits |-> DelSubmits, deletes |-> DelDeletes,
              invalid |-> FALSE, chat |-> {FALSE}, trace |-> TRUE,
              free_download |-> {800}, free_temp |-> {200},
              exits |-> ExitCodes, out |-> MaxOut, lines |-> OutLines,
              reads |-> 0, tracelog |-> FALSE, tracerun |-> FALSE, vods |-> PlainVodIds]

\* The environment of SpecHintRun: submissions for vod ids without and with the
\* digits 429, a log long enough to keep the lines of a stage, tools that print
\* a line without or with a signature and exit with either code.
InitHintRun ==
    /\ InitCommon
    /\ env = [MAX_QUEUE |-> 1, MAX_JOBS_IN_MEMORY |-> 1, KEEP_LOG_LINES |-> 6,
              submits |-> HintSubmits, deletes |-> 0,
              invalid |-> FALSE, chat |-> BOOLEAN, trace |-> FALSE,
              free_download |-> FreeDownloadMB, free_temp |-> FreeTempMB,
              exits |-> ExitCodes, out |-> MaxOut, lines |-> {"progress", "HTTP 429"},
              reads |-> 0, tracelog |-> FALSE, tracerun |-> FALSE, vods |-> RateVodIds]

\* The environment of SpecRemove: a queue of 2 and a registry of 1 job, so that
\* a submission evicts a job that still waits; submissions and a delete,
\* recorded.
InitRemove ==
    /\ InitCommon
    /\ env = [MAX_QUEUE |-> 2, MAX_JOBS_IN_MEMORY |-> 1, KEEP_LOG_LINES |-> 4,
              submits |-> RemSubmits, deletes |-> RemDeletes,
              invalid |-> FALSE, chat |-> {FALSE}, trace |-> TRUE,
              free_download |-> {800}, free_temp |-> {200},
              exits |-> ExitCodes, out |-> MaxOut, lines |-> OutLines,
              reads |-> 0, tracelog |-> FALSE, tracerun |-> FALSE, vods |-> PlainVodIds]

\* The environment of SpecStages: jobs with and without chat, tools that fail
\* or succeed and print a line, every outcome of the preflight, submissions
\* and cancel requests; the stages of the job the worker runs are recorded.
InitStages ==
    /\ InitCommon
    /\ env = [MAX_QUEUE |-> 1, MAX_JOBS_IN_MEMORY |-> 1, KEEP_LOG_LINES |-> 4,
              submits |-> StageSubmits, deletes |-> 0,
              invalid |-> FALSE, chat |-> BOOLEAN, trace |-> FALSE,
              free_download |-> FreeDownloadMB, free_temp |-> FreeTempMB,
              exits |-> ExitCodes, out |-> MaxOut, lines |-> {"progress", "HTTP 429"},
              reads |-> 0, tracelog |-> FALSE, tracerun |-> TRUE, vods |-> PlainVodIds]

\* The processes terminate_process_group is called for in SpecTerm: one that is
\* running or has exited already, and that, while it runs, never exits by
\* itself, exits once it has received SIGTERM, or may exit at any time.
Procs ==
    [alive : BOOLEAN, exits : {"never", "on_term", "any_time"}]

\* SpecTerm: terminate_process_group called for a process.
InitTerm ==
    /\ InitProgram
    /\ env = [MAX_QUEUE |-> 1, MAX_JOBS_IN_MEMORY |-> 1, KEEP_LOG_LINES |-> 4,
              submits |-> 0, deletes |-> 0,
              invalid |-> FALSE, chat |-> {FALSE}, trace |-> FALSE,
              free_download |-> {800}, free_temp |-> {200},
              exits |-> {0}, out |-> 0, lines |-> OutLines,
              reads |-> 0, tracelog |-> FALSE, tracerun |-> FALSE, vods |-> PlainVodIds]
    /\ \E proc \in Procs :
          call = [fn |-> "terminate_process_group", arg |-> proc, pc |-> "killpg_term",
                  termed |-> FALSE, waited |-> 0, timedout |-> FALSE,
                  sent |-> <<>>, raised |-> FALSE, ret |-> "", done |-> FALSE]

\* The arguments the command builders are called with in SpecBuild.  Numbers
\* with a fraction are counted in tenths.
VideoArgs ==
    [vod_id : {"123"}, out_path : {"video.mp4"}, quality : {"", "1080p"},
     threads : {2, 4}, bandwidth : {None, Some(0), Some(4000)},
     beginning : {None, Some(""), Some("0:10:00")},
     ending : {None, Some(""), Some("1:10:00")}]
ChatArgs ==
    [vod_id : {"123"}, out_path : {"chat.json.gz"}, threads : {2, 4},
     beginning : {None, Some(""), Some("0:10:00")},
     ending : {None, Some(""), Some("1:10:00")}]
RenderArgs ==
    [chat_json_path : {"chat.json.gz"}, out_path : {"chat.mp4"},
     chat_width : {422}, chat_height : {1080}, font_size : {18, 22},
     framerate : {30, 60}, update_rate : {2, 10},
     background_color : {"#111111"}, outline : BOOLEAN]

\* SpecBuild: one of the command builders called with its arguments.
InitBuild ==
    /\ InitProgram
    /\ env = [MAX_QUEUE |-> 1, MAX_JOBS_IN_MEMORY |-> 1, KEEP_LOG_LINES |-> 4,
              submits |-> 0, deletes |-> 0,
              invalid |-> FALSE, chat |-> {FALSE}, trace |-> FALSE,
              free_download |-> {800}, free_temp |-> {200},
              exits |-> {0}, out |-> 0, lines |-> OutLines,
              reads |-> 0, tracelog |-> FALSE, tracerun |-> FALSE, vods |-> PlainVodIds]
    /\ \/ \E a \in VideoArgs :
             call = [fn |-> "td_videodownload", arg |-> a, ret |-> <<>>, done |-> FALSE]
       \/ \E a \in ChatArgs :
             call = [fn |-> "td_chatdownload", arg |-> a, ret |-> <<>>, done |-> FALSE]
       \/ \E a \in RenderArgs :
             call = [fn |-> "td_chatrender", arg |-> a, ret |-> <<>>, done |-> FALSE]

\* The logs of SpecHint: the empty log and every log of up to MaxHintLines
\* lines of HintLines.
HintLogs ==
    {EmptyStr} \cup UNION {[1..n -> HintLines] : n \in 1..MaxHintLines}

\* SpecHint: hint_from_log called on a log.
InitHint ==
    /\ InitProgram
    /\ env = [MAX_QUEUE |-> 1, MAX_JOBS_IN_MEMORY |-> 1, KEEP_LOG_LINES |-> MaxHintLines,
              submits |-> 0, deletes |-> 0,
              invalid |-> FALSE, chat |-> {FALSE}, trace |-> FALSE,
              free_download |-> {800}, free_temp |-> {200},
              exits |-> {0}, out |-> 0, lines |-> HintLines,
              reads |-> 0, tracelog |-> FALSE, tracerun |-> FALSE, vods |-> PlainVodIds]
    /\ \E log \in HintLogs :
          call = [fn |-> "hint_from_log", arg |-> log, ret |-> "", done |-> FALSE]

\* ---------------------------------------------------------------- create_job
\* The request bodies the environment sends.
Bodies ==
    [vod_id : (IF env.invalid THEN VodIds ELSE {}) \cup env.vods,
     threads : IF env.invalid THEN ThreadsRaw ELSE {t \in ThreadsRaw : IsInt(t)},
     include_chat : env.chat]

\* Lines 1390-1441: the checks that answer 400.
Validates(body) == IsNumeric(body.vod_id) /\ IsInt(body.threads)

\* The outcome of a submission, the number of entries the worker had dequeued
\* and whether it had finished job 1 when it was decided (recorded in traced
\* runs).
Outcome(kind) == [outcome |-> kind, deq |-> hist.deq, fin1 |-> 1 \in hist.finished]
Traced(h, kind) == IF env.trace THEN [h EXCEPT !.results = Append(@, Outcome(kind))] ELSE h

\* Mutant: the capacity check made after add_job has registered the job.
create_job_check_after_add(body) ==
    /\ cj.pc = "idle"
    /\ env.submits > 0
    /\ env' = [env EXCEPT !.submits = @ - 1]
    /\ IF ~Validates(body)
       THEN /\ hist' = Traced(hist, "400")
            /\ cj' = [cj EXCEPT !.resp = "400"]
            /\ UNCHANGED <<jobs, rec, jobs_order, q>>
       ELSE IF QFull(q)
       THEN /\ hist' = Traced(hist, "429")
            /\ cj' = [cj EXCEPT !.resp = "429", !.next = @ + 1]
            /\ jobs' = jobs \cup {cj.next}
            /\ rec' = (cj.next :> NewJob(cj.next, body.vod_id, body.include_chat)) @@ rec
            /\ jobs_order' = <<cj.next>> \o jobs_order
            /\ UNCHANGED q
       ELSE /\ hist' = Traced(hist, "admitted")
            /\ cj' = [cj EXCEPT !.pc = "add_table", !.job_id = cj.next, !.resp = "",
                                !.next = @ + 1, !.vod_id = body.vod_id,
                                !.include_chat = body.include_chat]
            /\ UNCHANGED <<jobs, rec, jobs_order, q>>
    /\ UNCHANGED <<disk, w, dj, clock, jf, lj, call>>

\* Lines 1387-1446: validation, the q.full() check and the fresh job id.
\* A rejected call (400 or 429) ends here.
create_job_check(body) ==
    /\ cj.pc = "idle"
    /\ env.submits > 0
    /\ env' = [env EXCEPT !.submits = @ - 1]
    /\ IF ~Validates(body)
       THEN /\ hist' = Traced(hist, "400")
            /\ cj' = [cj EXCEPT !.resp = "400"]
            /\ UNCHANGED <<jobs, rec, jobs_order, q>>
       ELSE IF QFull(q)
       THEN /\ hist' = Traced(hist, "429")
            /\ cj' = [cj EXCEPT !.resp = "429"]
            /\ UNCHANGED <<jobs, rec, jobs_order, q>>
       ELSE /\ hist' = Traced(hist, "admitted")
            /\ cj' = [cj EXCEPT !.pc = "add_table", !.job_id = cj.next, !.resp = "",
                                !.next = @ + 1, !.vod_id = body.vod_id,
                                !.include_chat = body.include_chat]
            /\ UNCHANGED <<jobs, rec, jobs_order, q>>
    /\ UNCHANGED <<disk, w, dj, clock, jf, lj, call>>

\* add_job line 118: jobs[job_id] = job
InQueue(id) == \E i \in 1..Len(q) : q[i].job_id = id

\* The jobs taken out of the table while their entry waited in the queue
\* (recorded in traced runs).
RemovedNow(h, id) ==
    IF env.trace /\ InQueue(id)
    THEN [h EXCEPT !.removedQueued = @ \cup {id}]
    ELSE h

add_job_table ==
    /\ cj.pc = "add_table"
    /\ jobs' = jobs \cup {cj.job_id}
    /\ rec' = (cj.job_id :> NewJob(cj.job_id, cj.vod_id, cj.include_chat)) @@ rec
    /\ cj' = [cj EXCEPT !.pc = "add_order"]
    /\ lj' = Disturb(lj)
    /\ UNCHANGED <<jobs_order, q, disk, w, dj, clock, jf, call, env, hist>>

\* Mutant: the new id is appended at the tail of the ordering index.
add_job_order_at_tail ==
    /\ cj.pc = "add_order"
    /\ jobs_order' = Append(jobs_order, cj.job_id)
    /\ cj' = [cj EXCEPT !.pc = "evict_test"]
    /\ lj' = Disturb(lj)
    /\ UNCHANGED <<jobs, rec, q, disk, w, dj, clock, jf, call, env, hist>>

\* add_job line 119: jobs_order.insert(0, job_id)
add_job_order ==
    /\ cj.pc = "add_order"
    /\ jobs_order' = <<cj.job_id>> \o jobs_order
    /\ cj' = [cj EXCEPT !.pc = "evict_test"]
    /\ lj' = Disturb(lj)
    /\ UNCHANGED <<jobs, rec, q, disk, w, dj, clock, jf, call, env, hist>>

\* add_job line 121: while len(jobs_order) > MAX_JOBS_IN_MEMORY
add_job_evict_test ==
    /\ cj.pc = "evict_test"
    /\ cj' = [cj EXCEPT !.pc = IF Len(jobs_order) > MAX_JOBS_IN_MEMORY
                               THEN "evict_pop" ELSE "put"]
    /\ UNCHANGED <<jobs, rec, jobs_order, q, disk, w, dj, clock, jf, lj, call, env, hist>>

\* add_job lines 122-124: old = jobs_order.pop(); old_job = jobs.get(old)
add_job_evict_pop ==
    /\ cj.pc = "evict_pop"
    /\ Len(jobs_order) > 0
    /\ LET old == jobs_order[Len(jobs_order)]
       IN  /\ jobs_order' = SubSeq(jobs_order, 1, Len(jobs_order) - 1)
           /\ cj' = IF old \in jobs
                    THEN [cj EXCEPT !.pc = "evict_clean", !.old = old]
                    ELSE [cj EXCEPT !.pc = "evict_test", !.old = 0]
    /\ lj' = Disturb(lj)
    /\ UNCHANGED <<jobs, rec, q, disk, w, dj, clock, jf, call, env, hist>>

\* add_job line 125: cleanup_job_files(old_job)
add_job_evict_clean ==
    /\ cj.pc = "evict_clean"
    /\ disk' = cleanup_paths(disk, JobFilePaths(rec[cj.old]))
    /\ rec' = [rec EXCEPT ![cj.old] = [@ EXCEPT !.files = <<>>, !.path = NoPath]]
    /\ cj' = [cj EXCEPT !.pc = "evict_drop"]
    /\ UNCHANGED <<jobs, jobs_order, q, w, dj, clock, jf, lj, call, env, hist>>

\* add_job line 126: jobs.pop(old, None)
add_job_evict_drop ==
    /\ cj.pc = "evict_drop"
    /\ jobs' = jobs \ {cj.old}
    /\ cj' = [cj EXCEPT !.pc = "evict_test", !.old = 0]
    /\ rec' = Collect(rec, Referenced(jobs', w, cj', dj))
    /\ lj' = Disturb(lj)
    /\ hist' = IF cj.old \in jobs THEN RemovedNow(hist, cj.old) ELSE hist
    /\ UNCHANGED <<jobs_order, q, disk, w, dj, clock, jf, call, env>>

\* The payload create_job enqueues (lines 1472-1495).
Payload(c) == [job_id |-> c.job_id, vod_id |-> c.vod_id, include_chat |-> c.include_chat]

\* Line 1472: q.put(payload).  Queue.put blocks while the queue is full.
create_job_put ==
    /\ cj.pc \in {"put", "blocked"}
    /\ IF Len(q) < MAX_QUEUE
       THEN /\ q' = Append(q, Payload(cj))
            /\ cj' = [cj EXCEPT !.pc = "idle", !.job_id = 0, !.vod_id = <<>>,
                                !.include_chat = FALSE, !.resp = "200"]
            /\ hist' = [hist EXCEPT !.accepted = Append(@, cj.job_id)]
       ELSE /\ cj.pc = "put"
            /\ cj' = [cj EXCEPT !.pc = "blocked"]
            /\ UNCHANGED <<q, hist>>
    /\ UNCHANGED <<jobs, rec, jobs_order, disk, w, dj, clock, jf, lj, call, env>>

create_job ==
    \/ \E body \in Bodies : create_job_check(body)
    \/ add_job_table
    \/ add_job_order
    \/ add_job_evict_test
    \/ add_job_evict_pop
    \/ add_job_evict_clean
    \/ add_job_evict_drop
    \/ create_job_put

\* ---------------------------------------------------------------- cancel_job
\* The job ids a request may name: every id handed out so far and one unknown id.
\* The ids a request may name: the ids given out so far and one that was never
\* given out.  A client learns an id from the response of create_job or from
\* list_jobs, which reads the ordering index: the id add_job has put in the
\* table (line 118) and not yet in the index (line 119) is known to no client.
RequestIds == (1..cj.next) \ (IF cj.pc = "add_order" THEN {cj.job_id} ELSE {})

\* Mutant: cancel marks the job failed at once.
cancel_job_sets_error(id) ==
    /\ IF id \in jobs
       THEN rec' = [rec EXCEPT ![id] = [@ EXCEPT !.cancel_requested = TRUE,
                                                 !.status = "error"]]
       ELSE UNCHANGED rec
    /\ UNCHANGED <<jobs, jobs_order, q, disk, w, cj, dj, clock, jf, lj, call, env, hist>>

\* Mutant: a second cancel request withdraws the first.
cancel_job_toggles(id) ==
    /\ IF id \in jobs
       THEN rec' = [rec EXCEPT ![id] = [@ EXCEPT !.cancel_requested = ~@]]
       ELSE UNCHANGED rec
    /\ UNCHANGED <<jobs, jobs_order, q, disk, w, cj, dj, clock, jf, lj, call, env, hist>>

\* Lines 1519-1524.
cancel_job(id) ==
    /\ IF id \in jobs
       THEN /\ rec' = [rec EXCEPT ![id] = [@ EXCEPT !.cancel_requested = TRUE]]
            /\ hist' = IF env.trace
                       THEN [hist EXCEPT
                               !.cancelQueued =
                                   IF rec[id].status = "queued" /\ InQueue(id)
                                   THEN @ \cup {id} ELSE @,
                               !.cancelRunning =
                                   IF rec[id].status = "running" THEN @ \cup {id} ELSE @]
                       ELSE hist
       ELSE UNCHANGED <<rec, hist>>
    /\ UNCHANGED <<jobs, jobs_order, q, disk, w, cj, dj, clock, jf, lj, call, env>>

\* ---------------------------------------------------------------- delete_job
\* Line 1530: job = get_job_or_404(job_id).  Traced runs record the id asked
\* for and whether the job was found.
delete_job_get(id) ==
    /\ dj.pc = "idle"
    /\ env.deletes > 0
    /\ env' = [env EXCEPT !.deletes = @ - 1]
    /\ dj' = IF id \in jobs THEN [pc |-> "clean", job_id |-> id] ELSE dj
    /\ hist' = IF env.trace
               THEN [hist EXCEPT !.delreq = Append(@, [id |-> id, found |-> id \in jobs])]
               ELSE hist
    /\ UNCHANGED <<jobs, rec, jobs_order, q, disk, w, cj, clock, jf, lj, call>>

\* Line 1531: cleanup_job_files(job)
delete_job_clean ==
    /\ dj.pc = "clean"
    /\ disk' = cleanup_paths(disk, JobFilePaths(rec[dj.job_id]))
    /\ rec' = [rec EXCEPT ![dj.job_id] = [@ EXCEPT !.files = <<>>, !.path = NoPath]]
    /\ dj' = [dj EXCEPT !.pc = "pop"]
    /\ UNCHANGED <<jobs, jobs_order, q, w, cj, clock, jf, lj, call, env, hist>>

\* Mutant: the key is left in the table.
delete_job_pop_keeps_key ==
    /\ dj.pc = "pop"
    /\ dj' = [dj EXCEPT !.pc = "in_order"]
    /\ lj' = Disturb(lj)
    /\ UNCHANGED <<jobs, rec, jobs_order, q, disk, w, cj, clock, jf, call, env, hist>>

\* Line 1532: jobs.pop(job_id, None)
delete_job_pop ==
    /\ dj.pc = "pop"
    /\ jobs' = jobs \ {dj.job_id}
    /\ dj' = [dj EXCEPT !.pc = "in_order"]
    /\ lj' = Disturb(lj)
    /\ hist' = IF dj.job_id \in jobs THEN RemovedNow(hist, dj.job_id) ELSE hist
    /\ UNCHANGED <<rec, jobs_order, q, disk, w, cj, clock, jf, call, env>>

\* Line 1533: if job_id in jobs_order
delete_job_in_order ==
    /\ dj.pc = "in_order"
    /\ dj' = IF dj.job_id \in Range(jobs_order)
             THEN [dj EXCEPT !.pc = "remove"] ELSE DeleteIdle
    /\ rec' = Collect(rec, Referenced(jobs, w, cj, dj'))
    /\ UNCHANGED <<jobs, jobs_order, q, disk, w, cj, clock, jf, lj, call, env, hist>>

\* list.remove(x): the list without the first x.
RECURSIVE ListRemove(_, _)
ListRemove(s, x) ==
    IF s = <<>> THEN <<>>
    ELSE IF Head(s) = x THEN Tail(s)
    ELSE <<Head(s)>> \o ListRemove(Tail(s), x)

\* Line 1534: jobs_order.remove(job_id); ValueError when the id is gone.
delete_job_remove ==
    /\ dj.pc = "remove"
    /\ jobs_order' = ListRemove(jobs_order, dj.job_id)
    /\ hist' = [hist EXCEPT !.delete500 = @ \/ dj.job_id \notin Range(jobs_order)]
    /\ dj' = DeleteIdle
    /\ rec' = Collect(rec, Referenced(jobs, w, cj, dj'))
    /\ lj' = Disturb(lj)
    /\ UNCHANGED <<jobs, q, disk, w, cj, clock, jf, call, env>>

delete_job ==
    \/ \E id \in RequestIds : delete_job_get(id)
    \/ delete_job_clean
    \/ delete_job_pop
    \/ delete_job_in_order
    \/ delete_job_remove

\* ---------------------------------------------------------------- job_file
\* Mutant: the status check is left out.
job_file_status_unchecked ==
    /\ jf.pc = "status"
    /\ jf' = [jf EXCEPT !.pc = "path"]
    /\ rec' = Collect(rec, Held(jobs, w, cj, dj) \cup {jf'.job})
    /\ UNCHANGED <<jobs, jobs_order, q, disk, w, cj, dj, clock, lj, call, env, hist>>

\* Line 1509: job = get_job_or_404(job_id)
job_file_get(id) ==
    /\ jf.pc = "idle"
    /\ env.reads > 0
    /\ env' = [env EXCEPT !.reads = @ - 1]
    /\ jf' = IF id \in jobs
             THEN [pc |-> "status", job_id |-> id, job |-> id, resp |-> ""]
             ELSE [pc |-> "idle", job_id |-> id, job |-> 0, resp |-> "404"]
    /\ UNCHANGED <<jobs, rec, jobs_order, q, disk, w, cj, dj, clock, lj, call, hist>>

\* Lines 1510-1511: if job.get("status") != "done": 409
job_file_status ==
    /\ jf.pc = "status"
    /\ jf' = IF rec[jf.job].status # "done"
             THEN [jf EXCEPT !.pc = "idle", !.job = 0, !.resp = "409"]
             ELSE [jf EXCEPT !.pc = "path"]
    /\ rec' = Collect(rec, Held(jobs, w, cj, dj) \cup {jf'.job})
    /\ UNCHANGED <<jobs, jobs_order, q, disk, w, cj, dj, clock, lj, call, env, hist>>

\* Lines 1513-1516: 410 when the path is empty or no file is there, else the
\* FileResponse for the path.
job_file_path ==
    /\ jf.pc = "path"
    /\ LET path == rec[jf.job].path
       IN  jf' = IF path = NoPath \/ path \notin disk
                 THEN [jf EXCEPT !.pc = "idle", !.job = 0, !.resp = "410"]
                 ELSE [jf EXCEPT !.pc = "idle", !.job = 0, !.resp = "file"]
    /\ rec' = Collect(rec, Held(jobs, w, cj, dj))
    /\ UNCHANGED <<jobs, jobs_order, q, disk, w, cj, dj, clock, lj, call, env, hist>>

job_file ==
    \/ \E id \in RequestIds : job_file_get(id)
    \/ job_file_status
    \/ job_file_path

\* ---------------------------------------------------------------- list_jobs
\* Lines 1368-1369: out = []; the iterator over jobs_order.
\* The jobs in the registry: in the table and in the ordering index.
Registered == jobs \cap Range(jobs_order)

list_jobs_start ==
    /\ lj.pc = "idle"
    /\ env.reads > 0
    /\ env' = [env EXCEPT !.reads = @ - 1]
    /\ lj' = [pc |-> "iter", i |-> 1, out |-> <<>>, dirty |-> FALSE,
              always |-> Registered]
    /\ UNCHANGED <<jobs, rec, jobs_order, q, disk, w, cj, dj, clock, jf, call, hist>>

\* The summary list_jobs builds of a job dict (lines 1373-1380).
Summary(j) ==
    [job_id |-> j.job_id, vod_id |-> j.vod_id, status |-> j.status, stage |-> j.stage,
     started_at |-> j.started_at, finished_at |-> j.finished_at]

\* Lines 1369-1381: one turn of the loop; the list iterator ends when its
\* index has reached the current length of jobs_order.  lj.always holds the
\* jobs that have been in the registry since the call began (a job that left
\* the registry does not come back).
list_jobs_next ==
    /\ lj.pc = "iter"
    /\ IF lj.i <= Len(jobs_order)
       THEN LET jid == jobs_order[lj.i]
            IN  lj' = [lj EXCEPT !.i = @ + 1,
                                 !.out = IF jid \in jobs
                                         THEN Append(@, Summary(rec[jid])) ELSE @,
                                 !.always = @ \cap Registered]
       ELSE lj' = [lj EXCEPT !.pc = "idle", !.always = @ \cap Registered]
    /\ UNCHANGED <<jobs, rec, jobs_order, q, disk, w, cj, dj, clock, jf, call, env, hist>>

list_jobs ==
    \/ list_jobs_start
    \/ list_jobs_next

\* ---------------------------------------------------------------- worker_loop
Job == rec[w.job]
SetJob(j) == [rec EXCEPT ![w.job] = j]

\* Mutant: the worker takes the newest entry.
worker_get_newest ==
    /\ w.pc = "get"
    /\ q # <<>>
    /\ q' = SubSeq(q, 1, Len(q) - 1)
    /\ w' = [WorkerIdle EXCEPT !.pc = "lookup", !.job = q[Len(q)].job_id,
                               !.include_chat = q[Len(q)].include_chat]
    /\ hist' = [hist EXCEPT !.deq = @ + 1]
    /\ clock' = clock + 1
    /\ UNCHANGED <<jobs, rec, jobs_order, disk, cj, dj, env, jf, lj, call>>

\* Line 343: payload = q.get(timeout=1)
worker_get ==
    /\ w.pc = "get"
    /\ q # <<>>
    /\ q' = Tail(q)
    /\ w' = [WorkerIdle EXCEPT !.pc = "lookup", !.job = Head(q).job_id,
                               !.include_chat = Head(q).include_chat]
    /\ hist' = [hist EXCEPT !.deq = @ + 1]
    /\ clock' = clock + 1
    /\ UNCHANGED <<jobs, rec, jobs_order, disk, cj, dj, env, jf, lj, call>>

\* Mutant: the job is looked for in the ordering index.
worker_lookup_in_order ==
    /\ w.pc = "lookup"
    /\ w' = IF w.job \in Range(jobs_order) THEN [w EXCEPT !.pc = "start"] ELSE WorkerIdle
    /\ rec' = Collect(rec, Referenced(jobs, w', cj, dj))
    /\ UNCHANGED <<jobs, jobs_order, q, disk, cj, dj, clock, jf, lj, call, env, hist>>

\* Lines 348-351: job = jobs.get(job_id); an entry whose job is gone is dropped.
worker_lookup ==
    /\ w.pc = "lookup"
    /\ w' = IF w.job \in jobs THEN [w EXCEPT !.pc = "start"] ELSE WorkerIdle
    /\ rec' = Collect(rec, Referenced(jobs, w', cj, dj))
    /\ UNCHANGED <<jobs, jobs_order, q, disk, cj, dj, clock, jf, lj, call, env, hist>>

\* Lines 353-357.
worker_start ==
    /\ w.pc = "start"
    /\ rec' = SetJob([Job EXCEPT !.status = "running", !.started_at = now_ts,
                                 !.finished_at = 0, !.error = "", !.hint = ""])
    /\ hist' = [hist EXCEPT !.ran = Append(@, w.job), !.appended = <<>>,
                             !.stages = <<>>]
    /\ w' = [w EXCEPT !.pc = "clear_cancel"]
    /\ UNCHANGED <<jobs, jobs_order, q, disk, cj, dj, clock, jf, lj, call, env>>

\* Mutant: the flag is left as the requests before the run set it.
worker_clear_cancel_keeps_flag ==
    /\ w.pc = "clear_cancel"
    /\ w' = [w EXCEPT !.pc = "preflight"]
    /\ UNCHANGED <<jobs, rec, jobs_order, q, disk, cj, dj, clock, jf, lj, call, env, hist>>

\* Line 358: job["cancel_requested"] = False
worker_clear_cancel ==
    /\ w.pc = "clear_cancel"
    /\ rec' = SetJob([Job EXCEPT !.cancel_requested = FALSE])
    /\ w' = [w EXCEPT !.pc = "preflight"]
    /\ UNCHANGED <<jobs, jobs_order, q, disk, cj, dj, clock, jf, lj, call, env, hist>>

\* Mutant: free space equal to the need is refused too.
ensure_free_space_inclusive(path, free_mb, need_free_mb) ==
    IF free_mb <= need_free_mb
    THEN "Not enough free disk space in " \o path
    ELSE ""

\* ensure_free_space(path, need_free_mb): the message it raises, "" when it passes.
ensure_free_space(path, free_mb, need_free_mb) ==
    IF free_mb < need_free_mb
    THEN "Not enough free disk space in " \o path
    ELSE ""

\* Mutant: a failed preflight ends the worker thread.
worker_preflight_uncaught ==
    /\ w.pc = "preflight"
    /\ \E fd \in env.free_download :
          IF ensure_free_space("DOWNLOAD_DIR", fd, 800) # ""
          THEN w' = [w EXCEPT !.pc = "dead", !.free = <<fd>>]
          ELSE \E ft \in env.free_temp :
                  w' = IF ensure_free_space("TD_TEMP_DIR", ft, 200) # ""
                       THEN [w EXCEPT !.pc = "dead", !.free = <<fd, ft>>]
                       ELSE [w EXCEPT !.pc = "run", !.si = 1, !.free = <<fd, ft>>]
    /\ UNCHANGED <<jobs, rec, jobs_order, q, disk, cj, dj, clock, jf, lj, call, env, hist>>

\* Lines 362-363: the free space of the download directory is measured, and
\* after it passed that of the temp directory; w.free holds what was measured.
worker_preflight ==
    /\ w.pc = "preflight"
    /\ \E fd \in env.free_download :
          LET e1 == ensure_free_space("DOWNLOAD_DIR", fd, 800)
          IN  IF e1 # ""
              THEN w' = [w EXCEPT !.pc = "except", !.exc = e1, !.free = <<fd>>]
              ELSE \E ft \in env.free_temp :
                      LET e2 == ensure_free_space("TD_TEMP_DIR", ft, 200)
                      IN  w' = IF e2 # ""
                               THEN [w EXCEPT !.pc = "except", !.exc = e2,
                                              !.free = <<fd, ft>>]
                               ELSE [w EXCEPT !.pc = "run", !.si = 1,
                                              !.free = <<fd, ft>>]
    /\ UNCHANGED <<jobs, rec, jobs_order, q, disk, cj, dj, clock, jf, lj, call, env, hist>>

StageName == Stages(w.include_chat)[w.si]

\* The lines appended to the log of the job the worker runs, newest last
\* (recorded in runs that trace the log; the newest KEEP_LOG_LINES + 2 suffice).
Logged(h, line) ==
    IF env.tracelog
    THEN [h EXCEPT !.appended = LastN(@ \o line, KEEP_LOG_LINES + 2)]
    ELSE h

\* The stages run_and_log was called for on behalf of the job the worker runs,
\* each with how its call ended (recorded in runs that trace the stages).
Started(h, stage) ==
    IF env.tracerun
    THEN [h EXCEPT !.stages = Append(@, [stage |-> stage, result |-> "running"])]
    ELSE h
Ended(h, e) ==
    IF env.tracerun
    THEN [h EXCEPT !.stages[Len(h.stages)].result = IF e = "" THEN "ok" ELSE "failed"]
    ELSE h

\* run_and_log lines 185-186: the stage and its header.
run_and_log_header ==
    /\ w.pc = "run"
    /\ rec' = SetJob(append_log([Job EXCEPT !.stage = StageName], StageHeader(StageName)))
    /\ hist' = Started(Logged(hist, StageHeader(StageName)), StageName)
    /\ w' = [w EXCEPT !.pc = "cmd"]
    /\ UNCHANGED <<jobs, jobs_order, q, disk, cj, dj, clock, jf, lj, call, env>>

\* run_and_log lines 187-201: the command line, Popen, _proc_pid.
run_and_log_cmd ==
    /\ w.pc = "cmd"
    /\ rec' = SetJob([append_log(Job, CmdLine(w.si, Job)) EXCEPT !.has_proc_pid = TRUE])
    /\ hist' = Logged(hist, CmdLine(w.si, Job))
    /\ w' = [w EXCEPT !.pc = "read"]
    /\ UNCHANGED <<jobs, jobs_order, q, disk, cj, dj, clock, jf, lj, call, env>>

\* The disk after the process of the current stage has ended with exit code rc:
\* its output file exists after exit 0 and may exist (partial) after a failure.
AfterExit(rc, partial) ==
    IF rc = 0 \/ partial THEN disk \cup {StageOutput(w.job, w.si)} ELSE disk

\* terminate_process_group (lines 162-181) followed by proc.wait(): the exit
\* codes of a process that was sent SIGTERM (it may have ended on its own).
KilledExitCodes == env.exits \cup {-15}

\* Mutant: the loop over the output never looks at the cancel flag.
run_and_log_line_unchecked ==
    /\ w.pc = "read"
    /\ w.nout < env.out
    /\ \E line \in env.lines :
          /\ rec' = SetJob(append_log(Job, <<line>>))
          /\ hist' = Logged(hist, <<line>>)
          /\ w' = [w EXCEPT !.nout = @ + 1]
    /\ UNCHANGED <<jobs, jobs_order, q, disk, cj, dj, clock, jf, lj, call, env>>

\* run_and_log lines 205-210: one output line; the cancel flag is read after it.
run_and_log_line ==
    /\ w.pc = "read"
    /\ w.nout < env.out
    /\ \E line \in env.lines :
          LET j1 == append_log(Job, <<line>>)
          IN  IF j1.cancel_requested
              THEN \E rc \in KilledExitCodes, partial \in BOOLEAN :
                      /\ rc = 0 => partial
                      /\ rec' = SetJob(append_log(j1, CancelNotice))
                      /\ hist' = Logged(Logged(hist, <<line>>), CancelNotice)
                      /\ disk' = AfterExit(rc, partial)
                      /\ w' = [w EXCEPT !.pc = "resolve", !.rc = rc, !.nout = @ + 1]
              ELSE /\ rec' = SetJob(j1)
                   /\ hist' = Logged(hist, <<line>>)
                   /\ w' = [w EXCEPT !.nout = @ + 1]
                   /\ UNCHANGED disk
    /\ UNCHANGED <<jobs, jobs_order, q, cj, dj, clock, jf, lj, call, env>>

\* run_and_log line 212: end of output, rc = proc.wait()
run_and_log_exit ==
    /\ w.pc = "read"
    /\ \E rc \in env.exits, partial \in BOOLEAN :
          /\ rc = 0 => partial
          /\ disk' = AfterExit(rc, partial)
          /\ w' = [w EXCEPT !.pc = "resolve", !.rc = rc]
    /\ UNCHANGED <<jobs, rec, jobs_order, q, cj, dj, clock, jf, lj, call, env, hist>>

\* Mutant: the exit code is looked at before the cancel flag.
Resolution_ExitCodeFirst(cancel_requested, stage, rc) ==
    IF rc # 0 THEN stage \o " failed (exit " \o ToString(rc) \o ")"
    ELSE IF cancel_requested THEN "Cancelled by user"
    ELSE ""

\* run_and_log lines 220-223: the exception it raises, "" when it returns.
Resolution(cancel_requested, stage, rc) ==
    IF cancel_requested THEN "Cancelled by user"
    ELSE IF rc # 0 THEN stage \o " failed (exit " \o ToString(rc) \o ")"
    ELSE ""

\* Mutant: run_and_log returns whatever the exit code and the cancel flag are.
run_and_log_resolve_never_raises ==
    /\ w.pc = "resolve"
    /\ w' = IF w.si < Len(Stages(w.include_chat))
            THEN [w EXCEPT !.pc = "run", !.si = @ + 1]
            ELSE [w EXCEPT !.pc = "post"]
    /\ hist' = Ended(hist, Resolution(Job.cancel_requested, StageName, w.rc))
    /\ UNCHANGED <<jobs, rec, jobs_order, q, disk, cj, dj, clock, jf, lj, call, env>>

run_and_log_resolve ==
    /\ w.pc = "resolve"
    /\ LET e == Resolution(Job.cancel_requested, StageName, w.rc)
       IN  /\ w' = IF e # "" THEN [w EXCEPT !.pc = "except", !.exc = e]
                   ELSE IF w.si < Len(Stages(w.include_chat))
                   THEN [w EXCEPT !.pc = "run", !.si = @ + 1]
                   ELSE [w EXCEPT !.pc = "post"]
           /\ hist' = Ended(hist, e)
    /\ UNCHANGED <<jobs, rec, jobs_order, q, disk, cj, dj, clock, jf, lj, call, env>>

\* Mutant: the raw video is left out of the intermediates removed on success.
worker_post_keeps_video ==
    /\ w.pc = "post"
    /\ IF w.include_chat
       THEN /\ disk' = cleanup_paths(disk, <<chat_json(w.job), chat_mp4(w.job)>>)
            /\ w' = [w EXCEPT !.pc = "done"]
       ELSE IF video_path(w.job) \in disk
       THEN /\ disk' = (disk \ {video_path(w.job)}) \cup {final_path(w.job)}
            /\ w' = [w EXCEPT !.pc = "done"]
       ELSE /\ w' = [w EXCEPT !.pc = "except", !.exc = "FileNotFoundError"]
            /\ UNCHANGED disk
    /\ UNCHANGED <<jobs, rec, jobs_order, q, cj, dj, clock, jf, lj, call, env, hist>>

\* Lines 401-404: remove the intermediates, or rename the download.
worker_post ==
    /\ w.pc = "post"
    /\ IF w.include_chat
       THEN /\ disk' = cleanup_paths(disk, <<chat_json(w.job), chat_mp4(w.job),
                                            video_path(w.job)>>)
            /\ w' = [w EXCEPT !.pc = "done"]
       ELSE IF video_path(w.job) \in disk
       THEN /\ disk' = (disk \ {video_path(w.job)}) \cup {final_path(w.job)}
            /\ w' = [w EXCEPT !.pc = "done"]
       ELSE /\ w' = [w EXCEPT !.pc = "except", !.exc = "FileNotFoundError"]
            /\ UNCHANGED disk
    /\ UNCHANGED <<jobs, rec, jobs_order, q, cj, dj, clock, jf, lj, call, env, hist>>

\* Lines 406-407.
worker_done ==
    /\ w.pc = "done"
    /\ rec' = SetJob([Job EXCEPT !.status = "done", !.stage = "done"])
    /\ w' = [w EXCEPT !.pc = "set_path"]
    /\ UNCHANGED <<jobs, jobs_order, q, disk, cj, dj, clock, jf, lj, call, env, hist>>

\* Line 408: job["path"] = final_path
worker_set_path ==
    /\ w.pc = "set_path"
    /\ rec' = SetJob([Job EXCEPT !.path = final_path(w.job)])
    /\ w' = [w EXCEPT !.pc = "finally"]
    /\ UNCHANGED <<jobs, jobs_order, q, disk, cj, dj, clock, jf, lj, call, env, hist>>

\* Mutant: the handler records the error but leaves the status as it was.
worker_except_keeps_status ==
    /\ w.pc = "except"
    /\ rec' = SetJob([Job EXCEPT !.stage = "failed"])
    /\ w' = [w EXCEPT !.pc = "except_error"]
    /\ UNCHANGED <<jobs, jobs_order, q, disk, cj, dj, clock, jf, lj, call, env, hist>>

\* Lines 411-412.
worker_except ==
    /\ w.pc = "except"
    /\ rec' = SetJob([Job EXCEPT !.status = "error", !.stage = "failed"])
    /\ w' = [w EXCEPT !.pc = "except_error"]
    /\ UNCHANGED <<jobs, jobs_order, q, disk, cj, dj, clock, jf, lj, call, env, hist>>

\* Mutant: the error is stored without a hint.
worker_except_error_without_hint ==
    /\ w.pc = "except_error"
    /\ rec' = SetJob([Job EXCEPT !.error = w.exc])
    /\ w' = [w EXCEPT !.pc = "except_cleanup"]
    /\ UNCHANGED <<jobs, jobs_order, q, disk, cj, dj, clock, jf, lj, call, env, hist>>

\* Lines 413-414: str(e) and the hint of the log as it is now.
worker_except_error ==
    /\ w.pc = "except_error"
    /\ rec' = SetJob([Job EXCEPT !.error = w.exc, !.hint = hint_from_log(Job.log)])
    /\ w' = [w EXCEPT !.pc = "except_cleanup"]
    /\ UNCHANGED <<jobs, jobs_order, q, disk, cj, dj, clock, jf, lj, call, env, hist>>

\* Mutant: the failure path removes the intermediates but not the final file.
worker_except_cleanup_keeps_final ==
    /\ w.pc = "except_cleanup"
    /\ disk' = disk \ (Range(Job.files) \ {final_path(w.job)})
    /\ w' = [w EXCEPT !.pc = "finally"]
    /\ UNCHANGED <<jobs, rec, jobs_order, q, cj, dj, clock, jf, lj, call, env, hist>>

\* Line 417: cleanup_paths(job.get("files") or [])
worker_except_cleanup ==
    /\ w.pc = "except_cleanup"
    /\ disk' = cleanup_paths(disk, Job.files)
    /\ w' = [w EXCEPT !.pc = "finally"]
    /\ UNCHANGED <<jobs, rec, jobs_order, q, cj, dj, clock, jf, lj, call, env, hist>>

\* Mutant: the finish time and the pid are dealt with on success only.
worker_finally_on_success_only ==
    /\ w.pc = "finally"
    /\ w' = WorkerIdle
    /\ rec' = Collect(IF Job.status = "done"
                      THEN SetJob([Job EXCEPT !.finished_at = now_ts,
                                              !.has_proc_pid = FALSE])
                      ELSE rec,
                      Referenced(jobs, w', cj, dj))
    /\ hist' = [hist EXCEPT !.finished = @ \cup {w.job}]
    /\ UNCHANGED <<jobs, jobs_order, q, disk, cj, dj, clock, jf, lj, call, env>>

\* Lines 420-422.
worker_finally ==
    /\ w.pc = "finally"
    /\ w' = WorkerIdle
    /\ rec' = Collect(SetJob([Job EXCEPT !.finished_at = now_ts, !.has_proc_pid = FALSE]),
                      Referenced(jobs, w', cj, dj))
    /\ hist' = [hist EXCEPT !.finished = @ \cup {w.job}]
    /\ UNCHANGED <<jobs, jobs_order, q, disk, cj, dj, clock, jf, lj, call, env>>

worker_loop ==
    \/ worker_get
    \/ worker_lookup
    \/ worker_start
    \/ worker_clear_cancel
    \/ worker_preflight
    \/ run_and_log_header
    \/ run_and_log_cmd
    \/ run_and_log_line
    \/ run_and_log_exit
    \/ run_and_log_resolve
    \/ worker_post
    \/ worker_done
    \/ worker_set_path
    \/ worker_except
    \/ worker_except_error
    \/ worker_except_cleanup
    \/ worker_finally

\* ---------------------------------------------------------------- specification
Next ==
    \/ create_job
    \/ \E id \in RequestIds : cancel_job(id)
    \/ delete_job
    \/ worker_loop

Spec == Init /\ [][Next]_vars

SpecFiles == InitFiles /\ [][Next]_vars

\* Submissions against the worker.
NextAdmission ==
    \/ create_job
    \/ worker_loop

SpecAdmission == InitAdmission /\ [][NextAdmission]_vars

\* Submissions and cancel requests against the worker.
NextCancel ==
    \/ create_job
    \/ \E id \in RequestIds : cancel_job(id)
    \/ worker_loop

SpecCancel == InitCancel /\ [][NextCancel]_vars

SpecLog == InitLog /\ [][NextCancel]_vars

\* Submissions and a delete against the worker, read by list_jobs and job_file.
NextRead ==
    \/ create_job
    \/ delete_job
    \/ worker_loop
    \/ job_file
    \/ list_jobs

SpecRead == InitRead /\ [][NextRead]_vars

\* The operations on the table and the ordering index, read by list_jobs.  The
\* worker writes neither of the two and is left waiting.
NextList ==
    \/ create_job
    \/ delete_job
    \/ list_jobs

SpecList == InitList /\ [][NextList]_vars

\* Line 414: hint_from_log(job.get("log", "")), called on the log of call.
hint_from_log_call ==
    /\ call.fn = "hint_from_log"
    /\ ~call.done
    /\ call' = [call EXCEPT !.ret = hint_from_log(call.arg), !.done = TRUE]
    /\ UNCHANGED <<jobs, rec, jobs_order, q, disk, w, cj, dj, clock, env, hist, jf, lj>>

SpecHint == InitHint /\ [][hint_from_log_call]_vars

\* ------------------------------------------------- command builder calls
\* Line 376: td_videodownload(...) called with the arguments of call.
td_videodownload_call ==
    /\ call.fn = "td_videodownload" /\ ~call.done
    /\ call' = [call EXCEPT !.ret = td_videodownload(call.arg), !.done = TRUE]
    /\ UNCHANGED <<jobs, rec, jobs_order, q, disk, w, cj, dj, clock, env, hist, jf, lj>>

\* Line 382: td_chatdownload(...)
td_chatdownload_call ==
    /\ call.fn = "td_chatdownload" /\ ~call.done
    /\ call' = [call EXCEPT !.ret = td_chatdownload(call.arg), !.done = TRUE]
    /\ UNCHANGED <<jobs, rec, jobs_order, q, disk, w, cj, dj, clock, env, hist, jf, lj>>

\* Lines 384-393: td_chatrender(...)
td_chatrender_call ==
    /\ call.fn = "td_chatrender" /\ ~call.done
    /\ call' = [call EXCEPT !.ret = td_chatrender(call.arg), !.done = TRUE]
    /\ UNCHANGED <<jobs, rec, jobs_order, q, disk, w, cj, dj, clock, env, hist, jf, lj>>

NextBuild ==
    \/ td_videodownload_call
    \/ td_chatdownload_call
    \/ td_chatrender_call

SpecBuild == InitBuild /\ [][NextBuild]_vars

\* ------------------------------------------------- terminate_process_group
\* Line 170: proc.wait(timeout=3), in seconds.
WaitTimeout == 3

\* A signal the function tried to send: which, through which call, and whether
\* the call returned (ok) or raised.
Attempt(sig, via, ok) == [sig |-> sig, via |-> via, ok |-> ok]

\* The process after a signal that was delivered to it.
Signalled(proc, sig) ==
    IF sig = "SIGKILL" THEN [proc EXCEPT !.alive = FALSE] ELSE proc

TermRest == <<jobs, rec, jobs_order, q, disk, w, cj, dj, clock, env, hist, jf, lj>>

\* Lines 162-164: os.killpg(proc.pid, signal.SIGTERM); it returns or raises
\* (no such group, not permitted).
term_killpg_term ==
    /\ call.fn = "terminate_process_group" /\ call.pc = "killpg_term"
    /\ \E ok \in BOOLEAN :
          call' = [call EXCEPT !.sent = Append(@, Attempt("SIGTERM", "killpg", ok)),
                               !.termed = ok /\ call.arg.alive,
                               !.pc = IF ok THEN "wait" ELSE "terminate"]
    /\ UNCHANGED TermRest

\* Lines 165-168: proc.terminate() after killpg raised; what it raises is dropped.
term_terminate ==
    /\ call.fn = "terminate_process_group" /\ call.pc = "terminate"
    /\ \E ok \in BOOLEAN :
          call' = [call EXCEPT !.sent = Append(@, Attempt("SIGTERM", "proc", ok)),
                               !.termed = ok /\ call.arg.alive,
                               !.pc = "wait"]
    /\ UNCHANGED TermRest

\* Line 170: a second of proc.wait(timeout=3) passes, the process running.
term_wait_tick ==
    /\ call.fn = "terminate_process_group" /\ call.pc = "wait"
    /\ call.arg.alive
    /\ call.waited < WaitTimeout
    /\ call' = [call EXCEPT !.waited = @ + 1]
    /\ UNCHANGED TermRest

\* Mutant: SIGKILL follows also when the wait returned.
term_wait_return_goes_on ==
    /\ call.fn = "terminate_process_group" /\ call.pc = "wait"
    /\ ~call.arg.alive
    /\ call' = [call EXCEPT !.pc = "killpg_kill"]
    /\ UNCHANGED TermRest

\* Lines 170-171: the process has exited, proc.wait returns, and so does the
\* function.
term_wait_return ==
    /\ call.fn = "terminate_process_group" /\ call.pc = "wait"
    /\ ~call.arg.alive
    /\ call' = [call EXCEPT !.pc = "returned", !.ret = "None", !.done = TRUE]
    /\ UNCHANGED TermRest

\* Lines 172-173: TimeoutExpired after 3 seconds, dropped.
term_wait_timeout ==
    /\ call.fn = "terminate_process_group" /\ call.pc = "wait"
    /\ call.arg.alive
    /\ call.waited = WaitTimeout
    /\ call' = [call EXCEPT !.pc = "killpg_kill", !.timedout = TRUE]
    /\ UNCHANGED TermRest

\* Lines 174-176: os.killpg(proc.pid, signal.SIGKILL)
term_killpg_kill ==
    /\ call.fn = "terminate_process_group" /\ call.pc = "killpg_kill"
    /\ \E ok \in BOOLEAN :
          call' = [call EXCEPT !.sent = Append(@, Attempt("SIGKILL", "killpg", ok)),
                               !.arg = IF ok THEN Signalled(@, "SIGKILL") ELSE @,
                               !.pc = IF ok THEN "returned" ELSE "kill",
                               !.ret = IF ok THEN "None" ELSE @,
                               !.done = ok]
    /\ UNCHANGED TermRest

\* Lines 177-181: proc.kill() after killpg raised; what it raises is dropped.
term_kill ==
    /\ call.fn = "terminate_process_group" /\ call.pc = "kill"
    /\ \E ok \in BOOLEAN :
          call' = [call EXCEPT !.sent = Append(@, Attempt("SIGKILL", "proc", ok)),
                               !.arg = IF ok THEN Signalled(@, "SIGKILL") ELSE @,
                               !.pc = "returned", !.ret = "None", !.done = TRUE]
    /\ UNCHANGED TermRest

\* The process exits while the function runs: by itself, or because of the
\* SIGTERM it has received.
proc_exits ==
    /\ call.fn = "terminate_process_group" /\ ~call.done
    /\ call.arg.alive
    /\ \/ call.arg.exits = "any_time"
       \/ call.arg.exits = "on_term" /\ call.termed
    /\ call' = [call EXCEPT !.arg.alive = FALSE]
    /\ UNCHANGED TermRest

terminate_process_group ==
    \/ term_killpg_term
    \/ term_terminate
    \/ term_wait_tick
    \/ term_wait_return
    \/ term_wait_timeout
    \/ term_killpg_kill
    \/ term_kill

NextTerm ==
    \/ terminate_process_group
    \/ proc_exits

SpecTerm == InitTerm /\ [][NextTerm]_vars

\* Submissions and deletes against the worker.
NextDelete ==
    \/ create_job
    \/ delete_job
    \/ worker_loop

SpecDelete == InitDelete /\ [][NextDelete]_vars

\* The worker thread is scheduled again and again; an external process ends
\* after finitely many output lines.
SpecLive == InitLive /\ [][NextCancel]_vars /\ WF_vars(worker_loop)

SpecStages == InitStages /\ [][NextCancel]_vars

SpecRemove == InitRemove /\ [][NextDelete]_vars

SpecHintRun == InitHintRun /\ [][NextAdmission]_vars

\* ================================================================ claims
Pos(seq, x) == CHOOSE i \in 1..Len(seq) : seq[i] = x

\* The job is in the registry and no delete or eviction has taken hold of it.
Undisturbed(id) ==
    /\ id \in jobs
    /\ id \in Range(jobs_order)
    /\ dj.job_id # id
    /\ cj.old # id

\* The worker has run the job to its end.
WorkerFinished(id) == id \in hist.finished /\ w.job # id

\* C1: a create_job call that is rejected (400 for an invalid body, 429 for a
\* full queue) leaves the job table, the job dicts, the ordering index and the
\* queue exactly as they were and hands out no job id.
C1_RejectedCreatesNoJob ==
    [][ (env'.submits < env.submits /\ cj'.resp \in {"400", "429"})
        => /\ jobs' = jobs
           /\ rec' = rec
           /\ jobs_order' = jobs_order
           /\ q' = q
           /\ cj'.next = cj.next
           /\ cj'.pc = "idle" ]_vars

\* A submission has just been rejected for capacity: the queue is full and the
\* registry holds the jobs accepted before, no more.
C1_Witness ==
    /\ cj.resp = "429"
    /\ cj.pc = "idle"
    /\ Len(q) = MAX_QUEUE
    /\ Cardinality(jobs) = MAX_QUEUE
    /\ cj.next = MAX_QUEUE + 1

\* C2: q.put never blocks.  From the q.full() check to the q.put the queue has
\* a free slot, create_job never waits in put, and the queue never holds more
\* than MAX_QUEUE entries.
C2_PutNeverBlocks ==
    /\ cj.pc # "blocked"
    /\ Len(q) <= MAX_QUEUE
    /\ cj.pc # "idle" => Len(q) < MAX_QUEUE

\* A put has just filled the queue while the worker is in the middle of a job.
C2_Witness ==
    /\ cj.resp = "200"
    /\ cj.pc = "idle"
    /\ Len(q) = MAX_QUEUE
    /\ w.pc = "resolve"

\* C3: jobs enter status running in the order in which they were accepted:
\* the run order is a subsequence of the acceptance order, and no entry still
\* waiting was accepted before a job that has already entered running.
C3_FifoOrder ==
    /\ \A i \in 1..Len(hist.ran) : hist.ran[i] \in Range(hist.accepted)
    /\ \A i, j \in 1..Len(hist.ran) :
          i < j => Pos(hist.accepted, hist.ran[i]) < Pos(hist.accepted, hist.ran[j])
    /\ \A i \in 1..Len(hist.ran), k \in 1..Len(q) :
          Pos(hist.accepted, hist.ran[i]) < Pos(hist.accepted, q[k].job_id)

\* Two jobs have entered running one after the other and a third is waiting.
C3_Witness ==
    /\ Len(hist.ran) = 2
    /\ Len(q) = 1
    /\ Len(hist.accepted) = 3

\* C4 as stated: with capacity 3 and an empty system, the 4th of 4
\* submissions is rejected for capacity, and a 5th made after the worker has
\* finished job 1 is accepted, in every interleaving with the worker.
C4_Original ==
    LET res == hist.results
    IN  /\ Len(res) >= 4 => res[4].outcome = "429"
        /\ (Len(res) >= 5 /\ res[5].fin1) => res[5].outcome = "admitted"

\* C4 amended: the first three submissions are accepted; the 4th is rejected
\* for capacity exactly when the worker has dequeued no entry by then; and
\* after a rejected 4th, a 5th submission made once the worker has dequeued
\* job 1 (so also once it has finished job 1) is accepted.
C4_Amended ==
    LET res == hist.results
    IN  /\ \A i \in 1..Len(res) : i <= 3 => res[i].outcome = "admitted"
        /\ Len(res) >= 4 => (res[4].outcome = "429" <=> res[4].deq = 0)
        /\ (Len(res) >= 5 /\ res[4].outcome = "429" /\ res[5].deq >= 1)
              => res[5].outcome = "admitted"

\* The scenario has run: the 4th submission was rejected and the 5th, made
\* after the worker finished job 1, was accepted.
C4_Witness ==
    LET res == hist.results
    IN  /\ Len(res) = 5
        /\ res[4].outcome = "429"
        /\ res[5].fin1
        /\ res[5].outcome = "admitted"

\* C5: at most one job dict has status running.
C5_AtMostOneRunning ==
    Cardinality({id \in DOMAIN rec : rec[id].status = "running"}) <= 1

\* A job is running next to a finished one after an eviction: three jobs were
\* accepted and the registry holds two.
C5_Witness ==
    /\ \E id \in jobs : rec[id].status = "running"
    /\ \E id \in jobs : rec[id].status \in {"done", "error"}
    /\ Len(hist.accepted) = 3
    /\ Cardinality(jobs) = 2

\* The pairs <<status before, status after>> one step may produce.
StatusMoves ==
    {<<"queued", "queued">>, <<"running", "running">>, <<"done", "done">>,
     <<"error", "error">>, <<"queued", "running">>, <<"running", "done">>,
     <<"running", "error">>}

\* C6: a job's status only moves queued -> running -> done or
\* queued -> running -> error; a new job starts queued and a terminal status
\* never changes.
C6_StatusMachine ==
    [][ /\ \A id \in (DOMAIN rec) \cap (DOMAIN rec') :
              <<rec[id].status, rec'[id].status>> \in StatusMoves
        /\ \A id \in (DOMAIN rec') \ (DOMAIN rec) : rec'[id].status = "queued" ]_vars

\* A cancel request has reached a job that is done: the flag is set and the
\* status is still done.
C6_Witness ==
    \E id \in jobs :
        /\ rec[id].status = "done"
        /\ rec[id].cancel_requested
        /\ WorkerFinished(id)

\* C7 as stated: a job for which cancel was requested while it was queued,
\* its entry still waiting in the queue, never enters status running.
C7_CancelQueuedNeverRuns ==
    \A id \in hist.cancelQueued : id \notin Range(hist.ran)

\* C8 as stated: a job for which cancel was requested while its status was
\* running ends with status error and the message "Cancelled by user".
C8_CancelRunningEndsCancelled ==
    \A id \in hist.cancelRunning \cap DOMAIN rec :
        WorkerFinished(id)
          => rec[id].status = "error" /\ rec[id].error = "Cancelled by user"

C10_DoneJobKeepsOnlyFinal ==
    \A id \in jobs :
        (Undisturbed(id) /\ WorkerFinished(id) /\ rec[id].status = "done")
          => /\ ArtifactPaths(id) \cap disk = {final_path(id)}
             /\ rec[id].path = final_path(id)

\* A job with chat has run all four stages, is done and still registered.
C10_Witness ==
    \E id \in jobs :
        /\ Undisturbed(id)
        /\ WorkerFinished(id)
        /\ rec[id].status = "done"
        /\ rec[id].include_chat

\* The lines of a job's log: what lies between its "\n" characters, none for
\* the empty log.
LogLines(job) == IF job.log = EmptyStr THEN <<>> ELSE job.log

IsSuffix(a, b) == Len(a) <= Len(b) /\ a = SubSeq(b, Len(b) - Len(a) + 1, Len(b))

\* C11 as stated: a job's log never has more than KEEP_LOG_LINES lines, and
\* once more than KEEP_LOG_LINES lines have been appended the lines it holds
\* are the most recently appended ones, in order.
C11_LogBounded ==
    \A id \in DOMAIN rec :
        /\ Len(LogLines(rec[id])) <= KEEP_LOG_LINES
        /\ (id = w.job /\ Len(hist.appended) > KEEP_LOG_LINES)
              => IsSuffix(LogLines(rec[id]), hist.appended)
\* C12 as stated: when add_job returns the registry holds at most
\* MAX_JOBS_IN_MEMORY jobs; a job is evicted only while the registry holds
\* more than MAX_JOBS_IN_MEMORY jobs, and it is the oldest one (job ids are
\* handed out in submission order); the eviction deletes the files of that
\* job and changes no record and no file of any other job.
C12_EvictsOnlyOldest ==
    [][ /\ (cj.pc = "evict_test" /\ cj'.pc = "put")
             => Cardinality(jobs') <= MAX_JOBS_IN_MEMORY
        /\ (cj.pc = "evict_pop" /\ cj'.pc # "evict_pop")
             => /\ Len(jobs_order) > MAX_JOBS_IN_MEMORY
                /\ \A id \in jobs : jobs_order[Len(jobs_order)] <= id
        /\ (cj.pc = "evict_clean" /\ cj'.pc # "evict_clean")
             => /\ ArtifactPaths(cj.old) \cap disk' = {}
                /\ disk' \ ArtifactPaths(cj.old) = disk \ ArtifactPaths(cj.old)
                /\ \A id \in jobs \ {cj.old} : rec'[id] = rec[id]
        /\ (cj.pc = "evict_drop" /\ cj'.pc # "evict_drop")
             => /\ jobs' = jobs \ {cj.old}
                /\ \A id \in jobs' : rec'[id] = rec[id]
                /\ disk' = disk ]_vars
\* The job was registered and a delete or an eviction has removed it: it is in
\* neither the table nor the ordering index and no handler still works on it.
Removed(id) ==
    /\ id \in 1..(cj.next - 1)
    /\ id \notin jobs
    /\ id \notin Range(jobs_order)
    /\ cj.job_id # id
    /\ cj.old # id
    /\ dj.job_id # id

\* C13 as stated: once a job has been removed and the worker is idle again,
\* none of the job's artifact paths exists on disk.
C13_RemovedJobLeavesNoFiles ==
    \A id \in 1..(cj.next - 1) :
        (Removed(id) /\ w = WorkerIdle) => ArtifactPaths(id) \cap disk = {}
\* C14: every exception raised while a job executes makes the job's status
\* error, the worker reaches its finally block only with status done or error,
\* and every job the worker has found in the registry is eventually finished,
\* with the worker back at q.get.
C14_WorkerNeverDies ==
    /\ [][ (w.pc = "except" /\ w'.pc # "except") => rec'[w.job].status = "error" ]_vars
    /\ [](w.pc = "finally" => Job.status \in {"done", "error"})
    /\ \A id \in 1..LiveSubmits :
           (w.pc = "start" /\ w.job = id) ~> (w.pc = "get" /\ id \in hist.finished)

\* The worker has finished job 1, has gone on to job 2, whose stage failed, and
\* is back at q.get.
C14_Witness ==
    /\ w = WorkerIdle
    /\ hist.ran = <<1, 2>>
    /\ hist.finished = {1, 2}
    /\ 2 \in jobs
    /\ rec[2].status = "error"
    /\ rec[2].error = "VideoDownload failed (exit 1)"
\* C15: when run_and_log resolves a stage whose process has ended, a set
\* cancel flag gives the failure "Cancelled by user" whatever the exit code,
\* otherwise a non-zero exit code gives "<stage> failed (exit <rc>)", otherwise
\* the stage succeeds; the except branch stores that message as the job's
\* error, and the fourth stage's failure names the Combine stage.
C15_ResolutionPriority ==
    [][ /\ (w.pc = "resolve" /\ w'.pc # "resolve")
             => LET cancel == rec[w.job].cancel_requested
                    stage == Stages(w.include_chat)[w.si]
                IN  /\ cancel
                         => w'.pc = "except" /\ w'.exc = "Cancelled by user"
                    /\ (~cancel /\ w.rc # 0)
                         => /\ w'.pc = "except"
                            /\ w'.exc = stage \o " failed (exit " \o ToString(w.rc) \o ")"
                            /\ w.si = 4 => w'.exc = "Combine (Video + Chat) failed (exit 1)"
                    /\ (~cancel /\ w.rc = 0)
                         => w'.pc \in {"run", "post"} /\ w'.exc = ""
        /\ (w.pc = "except_error" /\ w'.pc # "except_error")
             => rec'[w.job].error = w.exc ]_vars

\* A job whose Combine stage has failed, the cancel flag not set.
C15_Witness ==
    \E id \in jobs :
        /\ rec[id].status = "error"
        /\ ~rec[id].cancel_requested
        /\ rec[id].error = "Combine (Video + Chat) failed (exit 1)"
\* C16: a job_file call answers 404 exactly for an id that is not in the
\* table; for a job found it answers 409 exactly when the status is queued,
\* running or error; for a done job it answers 410 when the path is empty or
\* no file is at the path, and streams the file otherwise, which is then the
\* existing final file of a done job.  No step of the call changes the table,
\* the ordering index, the queue, the disk or a registered job's dict.
C16_ArtifactRetrieval ==
    [][ jf' # jf =>
          /\ UNCHANGED <<jobs, jobs_order, q, disk, w, cj, dj, lj>>
          /\ \A id \in jobs : rec'[id] = rec[id]
          /\ jf.pc = "idle"
               => (jf'.resp = "404" <=> jf'.job_id \notin jobs)
          /\ jf.pc = "status"
               => /\ jf'.resp = "409" <=> rec[jf.job].status \in {"queued", "running", "error"}
                  /\ jf'.resp # "409" => jf'.pc = "path" /\ rec[jf.job].status = "done"
          /\ jf.pc = "path"
               => /\ rec[jf.job].status = "done"
                  /\ jf'.resp = "410"
                       <=> (rec[jf.job].path = NoPath \/ rec[jf.job].path \notin disk)
                  /\ jf'.resp = "file"
                       <=> (rec[jf.job].path = final_path(jf.job_id)
                             /\ final_path(jf.job_id) \in disk)
          /\ jf'.pc = "idle" => jf'.resp \in {"404", "409", "410", "file"} ]_vars

\* A call has streamed the final file of a done job.
C16_Witness ==
    /\ jf.pc = "idle"
    /\ jf.resp = "file"
    /\ jf.job_id \in jobs
    /\ rec[jf.job_id].status = "done"
    /\ final_path(jf.job_id) \in disk
\* The job ids of the summaries a list_jobs call has collected.
ListedIds(out) == [i \in 1..Len(out) |-> out[i].job_id]

\* Newest first: job ids are handed out in submission order.
NewestFirst(ids) == \A i, k \in 1..Len(ids) : i < k => ids[i] > ids[k]

\* C17: add_job puts the new id, whose job is queued, at the head of the
\* ordering index; a list_jobs call during which the registry did not change
\* returns summaries of registered jobs only, newest first, and all of them
\* when no insert, eviction or delete is under way.
C17_ListNewestFirst ==
    [][ /\ (cj.pc = "add_order" /\ cj'.pc # "add_order")
             => /\ jobs_order' = <<cj.job_id>> \o jobs_order
                /\ cj.job_id \in jobs => rec[cj.job_id].status = "queued"
        /\ (lj.pc = "iter" /\ lj'.pc = "idle" /\ ~lj.dirty)
             => /\ NewestFirst(ListedIds(lj'.out))
                /\ Range(ListedIds(lj'.out)) \subseteq jobs
                /\ (cj.pc \in {"idle", "put", "blocked"} /\ dj.pc = "idle")
                     => Range(ListedIds(lj'.out)) = jobs ]_vars

\* A call has returned the two registered jobs, the newer one first, after an
\* eviction or a delete has removed an older job.
C17_Witness ==
    /\ lj.pc = "idle"
    /\ ~lj.dirty
    /\ ListedIds(lj.out) = <<3, 2>>
    /\ jobs = {2, 3}
\* C18: a delete_job call for an id that an earlier delete_job call has found
\* and removed finds no job and changes neither the table, nor the ordering
\* index, nor a file on disk, nor a job dict, nor the queue.
C18_DeleteIdempotent ==
    [][ (/\ Len(hist'.delreq) = Len(hist.delreq) + 1
         /\ \E i \in 1..Len(hist.delreq) :
               /\ hist.delreq[i].id = hist'.delreq[Len(hist'.delreq)].id
               /\ hist.delreq[i].found)
          => /\ ~hist'.delreq[Len(hist'.delreq)].found
             /\ UNCHANGED <<jobs, rec, jobs_order, disk, q>> ]_vars

\* Job 2 has been deleted, and deleted again.
C18_Witness ==
    /\ dj.pc = "idle"
    /\ hist.delreq = <<[id |-> 2, found |-> TRUE], [id |-> 2, found |-> FALSE]>>
    /\ 2 \notin jobs
    /\ 2 \notin Range(jobs_order)
\* The job dicts after the cancel flag of job id has been set.
WithCancelFlag(id) == [rec EXCEPT ![id] = [@ EXCEPT !.cancel_requested = TRUE]]

\* C19: a step that changes a job's cancel flag without being a step of the
\* worker sets the flag and changes nothing else: no other field of the job,
\* no other job, nor the table, the ordering index, the queue, the disk or
\* another handler; it happens in every status; and no step that leaves the
\* worker where it is ever takes a set flag back, so a repeated cancel has no
\* further effect and a cancel for an unknown id none at all.
C19_CancelOnlySetsFlag ==
    [][ \A id \in (DOMAIN rec) \cap (DOMAIN rec') :
          (rec'[id].cancel_requested # rec[id].cancel_requested /\ w' = w)
            => /\ rec' = WithCancelFlag(id)
               /\ id \in jobs
               /\ UNCHANGED <<jobs, jobs_order, q, disk, cj, dj, jf, lj>> ]_vars

\* A queued job whose entry waits in the queue has its cancel flag set.
C19_Witness ==
    \E id \in jobs :
        /\ rec[id].status = "queued"
        /\ InQueue(id)
        /\ rec[id].cancel_requested
\* The ranks of the four signatures and what makes each present in a log.
SigPresent(log, k) ==
    CASE k = 1 -> LogHas(log, "Couldn't find a valid ICU package installed")
                    \/ LogHas(log, "dotnet-missing-libicu")
      [] k = 2 -> LogHas(log, "exceeded the limit of 2GB")
                    \/ LogHas(LowerLog(log), "temporary storage volume /tmp exceeded")
      [] k = 3 -> LogHas(log, "Quality not found")
                    \/ LogHas(log, "Unable to find requested quality")
      [] OTHER -> LogHas(log, "429") \/ LogHas(log, "Too Many Requests")

HintOfRank == <<HintIcu, HintTmp, HintQuality, HintRate>>

\* C20: hint_from_log returns "" for the empty log and for a log without a
\* signature, and otherwise the non-empty message of the signature of lowest
\* rank (ICU, /tmp cap, quality, rate limit) that is present in the log.
C20_HintFirstMatch ==
    (call.fn = "hint_from_log" /\ call.done)
      => LET present == {k \in 1..4 : SigPresent(call.arg, k)}
         IN  IF call.arg = EmptyStr \/ present = {}
             THEN call.ret = ""
             ELSE /\ call.ret # ""
                  /\ \E k \in present :
                        /\ \A m \in present : k <= m
                        /\ call.ret = HintOfRank[k]

\* A log with a rate-limit line before a quality line has given the quality
\* hint.
C20_Witness ==
    /\ call.done
    /\ call.arg = <<"HTTP 429", "progress", "Quality not found">>
    /\ call.ret = HintQuality

\* The four stages in the order of lines 376-399.
StageOrder == <<"VideoDownload", "ChatDownload", "ChatRender", "Combine (Video + Chat)">>

\* The worker is past line 357 with a job: hist.stages is about that job.
WorkerRuns == w.pc \notin {"get", "lookup", "start"}

\* C21: the stages of a job run strictly in the order VideoDownload,
\* ChatDownload, ChatRender, Combine; a stage starts only after every earlier
\* stage of the job succeeded, so the first stage that fails ends the job's
\* stages; the three chat stages run only for a job with include_chat; for a
\* job without it the successful download is followed only by the rename of
\* the download to the final path.
C21_StagesInOrder ==
    /\ [](WorkerRuns =>
           LET st == hist.stages
           IN  /\ Len(st) <= 4
               /\ \A i \in 1..Len(st) : st[i].stage = StageOrder[i]
               /\ \A i \in 1..(Len(st) - 1) : st[i].result = "ok"
               /\ Len(st) > 1 => w.include_chat
               /\ (st # <<>> /\ st[Len(st)].result = "running")
                     <=> w.pc \in {"cmd", "read", "resolve"}
               /\ (st # <<>> /\ st[Len(st)].result = "failed")
                     => w.pc \in {"except", "except_error", "except_cleanup", "finally"}
               /\ w.pc \in {"post", "done", "set_path"}
                     => /\ Len(st) = (IF w.include_chat THEN 4 ELSE 1)
                        /\ st[Len(st)].result = "ok")
    /\ [][ (w.pc = "post" /\ ~w.include_chat /\ w' # w)
             => IF video_path(w.job) \in disk
                THEN /\ disk' = (disk \ {video_path(w.job)}) \cup {final_path(w.job)}
                     /\ w'.pc = "done"
                     /\ rec' = rec
                ELSE /\ disk' = disk
                     /\ w'.pc = "except" ]_vars

\* A job with chat whose third stage failed after two that succeeded.
C21_Witness ==
    /\ w.pc = "finally"
    /\ w.include_chat
    /\ Len(hist.stages) = 3
    /\ hist.stages[1].result = "ok" /\ hist.stages[2].result = "ok"
    /\ hist.stages[3] = [stage |-> "ChatRender", result |-> "failed"]
\* What the preflight measured is below a threshold.
PreflightFailed(f) == f # <<>> /\ (f[1] < 800 \/ (Len(f) = 2 /\ f[2] < 200))

\* C22: the preflight fails the job when the free space of the download
\* directory is below 800 MB or that of the temp directory is below 200 MB,
\* and lets it pass when both are at or above the threshold, exactly 800 and
\* 200 included; a job that failed it ends with status error and stage failed,
\* no stage was started for it, no process was started and its log is empty.
C22_Preflight ==
    /\ [][ (w.pc = "preflight" /\ w' # w)
             => /\ w'.free # <<>>
                /\ PreflightFailed(w'.free)
                      => /\ w'.pc = "except"
                         /\ w'.exc \in {"Not enough free disk space in DOWNLOAD_DIR",
                                         "Not enough free disk space in TD_TEMP_DIR"}
                /\ ~PreflightFailed(w'.free) => w'.pc = "run" /\ w'.si = 1
                /\ w'.free = <<800, 200>> => w'.pc = "run" ]_vars
    /\ []((WorkerRuns /\ PreflightFailed(w.free))
            => /\ w.pc \in {"except", "except_error", "except_cleanup", "finally"}
               /\ hist.stages = <<>>
               /\ Job.log = EmptyStr /\ Job.last_log_line = EmptyStr
               /\ ~Job.has_proc_pid
               /\ w.pc = "finally" => Job.status = "error" /\ Job.stage = "failed")
    /\ [](\A id \in DOMAIN rec :
             (WorkerFinished(id)
              /\ rec[id].error \in {"Not enough free disk space in DOWNLOAD_DIR",
                                    "Not enough free disk space in TD_TEMP_DIR"})
             => /\ rec[id].status = "error" /\ rec[id].stage = "failed"
                /\ rec[id].log = EmptyStr)

\* A job failed by the temp directory at 199 MB after the download directory
\* passed at exactly 800 MB.
C22_Witness ==
    /\ w.pc = "finally"
    /\ w.free = <<800, 199>>
    /\ Job.status = "error" /\ Job.stage = "failed"
    /\ Job.error = "Not enough free disk space in TD_TEMP_DIR"
    /\ Job.log = EmptyStr
\* C23: the worker drops an entry whose job is not registered; for a
\* registered job it sets the status to running, records the start time,
\* resets finished_at to 0, clears error and hint, and then clears the cancel
\* flag, whatever cancel requests were made before: the job reaches the
\* preflight with the flag as line 358 left it, false.
C23_RunStartsClean ==
    [][ /\ (w.pc = "lookup" /\ w' # w)
             => IF w.job \in jobs THEN w'.pc = "start" /\ rec'[w.job] = rec[w.job]
                ELSE w' = WorkerIdle
        /\ (w.pc = "start" /\ w' # w)
             => /\ rec'[w.job] = [rec[w.job] EXCEPT !.status = "running",
                                                     !.started_at = clock,
                                                     !.finished_at = 0,
                                                     !.error = "", !.hint = ""]
                /\ rec'[w.job].started_at > 0
                /\ w'.pc = "clear_cancel"
        /\ (w.pc = "clear_cancel" /\ w' # w)
             => /\ rec'[w.job] = [rec[w.job] EXCEPT !.cancel_requested = FALSE]
                /\ w'.pc = "preflight" ]_vars

\* A job cancelled while it was queued is at the preflight, its flag false.
C23_Witness ==
    /\ w.pc = "preflight"
    /\ w.job \in hist.cancelQueued
    /\ Job.status = "running"
    /\ Job.started_at > 0 /\ Job.finished_at = 0
    /\ ~Job.cancel_requested
\* C24: in every state the error and the hint of a job are non-empty only if
\* its status is error, and its path is non-empty only if its status is done;
\* a job the worker has finished has status done and stage done, or status
\* error and stage failed with the hint hint_from_log gives for its log, which
\* is the log at the moment of the failure.
C24_FieldsAgree ==
    /\ [](\A id \in DOMAIN rec :
             LET j == rec[id]
             IN  /\ (j.error # "" \/ j.hint # "") => j.status = "error"
                 /\ j.path # NoPath => j.status = "done"
                 /\ WorkerFinished(id)
                       => \/ j.status = "done" /\ j.stage = "done"
                          \/ /\ j.status = "error" /\ j.stage = "failed"
                             /\ j.error # ""
                             /\ j.hint = hint_from_log(j.log))
    /\ [][ (w.pc = "except_error" /\ w' # w)
             => /\ rec'[w.job].hint = hint_from_log(rec[w.job].log)
                /\ rec'[w.job].log = rec[w.job].log ]_vars

\* A job that failed with a rate-limit line in its log carries the hint for it.
C24_Witness ==
    \E id \in DOMAIN rec :
        /\ WorkerFinished(id)
        /\ rec[id].status = "error" /\ rec[id].stage = "failed"
        /\ rec[id].error = "VideoDownload failed (exit 1)"
        /\ rec[id].hint = HintRate
        /\ rec[id].path = NoPath
\* C25: a job the worker has finished, on whichever path, has a finished_at
\* that is not 0 and no _proc_pid; a job that is queued or running has
\* finished_at 0.
C25_FinishedAt ==
    /\ [](\A id \in DOMAIN rec :
             /\ WorkerFinished(id)
                   => rec[id].finished_at # 0 /\ ~rec[id].has_proc_pid
             /\ rec[id].status \in {"queued", "running"} => rec[id].finished_at = 0)
    /\ [][ (w.pc = "finally" /\ w' # w)
             => /\ w'.pc = "get"
                /\ w.job \in hist'.finished
                /\ w.job \in DOMAIN rec'
                      => /\ rec'[w.job].finished_at = clock
                         /\ rec'[w.job].finished_at >= rec'[w.job].started_at
                         /\ ~rec'[w.job].has_proc_pid ]_vars

\* A cancelled job whose process had been started is finished.
C25_Witness ==
    \E id \in DOMAIN rec :
        /\ WorkerFinished(id)
        /\ rec[id].error = "Cancelled by user"
        /\ rec[id].log # EmptyStr
        /\ rec[id].finished_at # 0
        /\ ~rec[id].has_proc_pid
\* C26: the cancel flag is looked at after every output line appended; when it
\* is set, the cancel notice is appended, the process group is terminated and
\* the loop is left, so no further output line reaches the log and, the flag
\* still set when the process has ended, run_and_log raises and no later stage
\* starts.  A cancel requested during a stage thus ends the job at the next
\* output line or at the exit of the process.
C26_CancelSeenAfterLine ==
    [][ /\ (w.pc = "read" /\ w'.nout = w.nout + 1)
             => IF rec[w.job].cancel_requested
                THEN /\ w'.pc = "resolve"
                     /\ rec'[w.job].last_log_line = CancelNotice
                     /\ w'.rc \in KilledExitCodes
                ELSE /\ w'.pc = "read"
                     /\ rec'[w.job].last_log_line \in {<<l>> : l \in env.lines}
        /\ (w.pc = "read" /\ w' # w /\ w'.nout = w.nout) => w'.pc = "resolve"
        /\ (w.pc = "resolve" /\ w' # w /\ rec[w.job].cancel_requested)
             => w'.pc = "except" /\ w'.exc = "Cancelled by user"
        /\ (w.pc \in {"resolve", "except", "except_error", "except_cleanup", "finally"}
            /\ w.job \in DOMAIN rec')
             => rec'[w.job].log = rec[w.job].log
        /\ (w.pc \in {"except", "except_error", "except_cleanup", "finally"} /\ w' # w)
             => w'.pc \in {"except_error", "except_cleanup", "finally", "get"} ]_vars

\* The flag was seen after the first line of a tool that had more to print,
\* in a stage that is not the last.
C26_Witness ==
    /\ w.pc = "resolve"
    /\ w.nout < env.out
    /\ w.si < 4 /\ w.include_chat
    /\ Job.cancel_requested
    /\ Job.last_log_line = CancelNotice
\* C27: terminate_process_group first tries SIGTERM on the process group,
\* then waits for the process for at most 3 seconds, and tries SIGKILL only
\* after that wait has timed out with the process still running; no SIGKILL
\* comes before the SIGTERM attempt; the function never raises and returns,
\* also for a process that had exited before the call.
C27_TermThenKill ==
    LET s == call.sent
        Kills == {i \in 1..Len(s) : s[i].sig = "SIGKILL"}
    IN  /\ call.pc # "killpg_term"
              => s # <<>> /\ s[1].sig = "SIGTERM" /\ s[1].via = "killpg"
        /\ call.waited <= WaitTimeout
        /\ call.timedout => call.waited = WaitTimeout
        /\ \A i \in Kills : call.timedout /\ i > 1 /\ s[1].sig = "SIGTERM"
        /\ (call.pc \in {"killpg_kill", "kill"}) => call.timedout
        /\ (call.done /\ ~call.timedout) => ~\E i \in 1..Len(s) : s[i].sig = "SIGKILL"
        /\ ~call.raised
        /\ call.done <=> call.pc = "returned"
        /\ call.done => call.ret = "None"

\* A process that ignores SIGTERM: the group was sent SIGTERM, the wait timed
\* out after 3 seconds, killpg raised for SIGKILL and proc.kill() was used.
C27_Witness ==
    /\ call.done
    /\ call.timedout /\ call.waited = 3
    /\ Len(call.sent) = 3
    /\ call.sent[1] = Attempt("SIGTERM", "killpg", TRUE)
    /\ call.sent[2] = Attempt("SIGKILL", "killpg", FALSE)
    /\ call.sent[3].via = "proc"
\* The fields of a job the worker writes while it runs the job.
RuntimeFields(j) == <<j.status, j.stage, j.log, j.error, j.hint, j.files, j.path>>

\* A step of a request handler: the worker stays where it is.
RequestStep == w' = w

\* A step of job_file or of list_jobs.
ReadStep == jf' # jf \/ lj'.pc # lj.pc \/ lj'.i # lj.i

\* C28: while a job has status running, no step of a request changes its
\* status, stage, log, error, hint, files or path (a request may write its
\* cancel flag only), and a step of list_jobs or job_file changes no job, nor
\* the table, the ordering index or the queue.
C28_WorkerOwnsFields ==
    [][ /\ \A id \in (DOMAIN rec) \cap (DOMAIN rec') :
              (rec[id].status = "running" /\ RequestStep)
              => RuntimeFields(rec'[id]) = RuntimeFields(rec[id])
        /\ ReadStep
              => /\ UNCHANGED <<jobs, jobs_order, q, disk>>
                 /\ \A id \in (DOMAIN rec) \cap (DOMAIN rec') : rec'[id] = rec[id] ]_vars
\* The places of a word in a command.
Places(cmd, word) == {i \in 1..Len(cmd) : cmd[i] = word}

\* The command holds the option exactly once, followed by the value.
HasOption(cmd, opt, value) ==
    /\ Cardinality(Places(cmd, opt)) = 1
    /\ \A i \in Places(cmd, opt) : i < Len(cmd) /\ cmd[i + 1] = value

\* The command does not hold the option.
LacksOption(cmd, opt) == Places(cmd, opt) = {}

\* The option is in the command, with the value, exactly when present holds.
OptionIff(cmd, opt, present, value) ==
    IF present THEN HasOption(cmd, opt, value) ELSE LacksOption(cmd, opt)

\* The place of an option that occurs once.
Place(cmd, opt) == CHOOSE i \in Places(cmd, opt) : TRUE

\* C29: the command builders depend on their arguments only and change no
\* state.  The video download command always holds --id with the id, -o with
\* the output path, --threads with the thread count and --temp-path with the
\* temp directory, in this order, and holds --quality, --bandwidth,
\* --beginning and --ending exactly when the value is a non-empty string (not
\* None for the bandwidth); the chat download command holds --beginning and
\* --ending under the same condition; the chat render command ends with
\* --outline exactly when outline is true.
C29_CommandBuilders ==
    /\ [](call.done =>
           LET a == call.arg
               c == call.ret
           IN  /\ call.fn = "td_videodownload"
                     => /\ c = td_videodownload(a)
                        /\ HasOption(c, "--id", a.vod_id)
                        /\ HasOption(c, "-o", a.out_path)
                        /\ HasOption(c, "--threads", ToString(a.threads))
                        /\ HasOption(c, "--temp-path", TD_TEMP_DIR)
                        /\ Place(c, "--id") < Place(c, "-o")
                        /\ Place(c, "-o") < Place(c, "--threads")
                        /\ Place(c, "--threads") < Place(c, "--temp-path")
                        /\ Place(c, "--temp-path") = Len(c) - 1
                        /\ OptionIff(c, "--quality", a.quality # "", a.quality)
                        /\ IF a.bandwidth # None
                           THEN HasOption(c, "--bandwidth", ToString(a.bandwidth[1]))
                           ELSE LacksOption(c, "--bandwidth")
                        /\ IF a.beginning # None /\ a.beginning # Some("")
                           THEN HasOption(c, "--beginning", a.beginning[1])
                           ELSE LacksOption(c, "--beginning")
                        /\ IF a.ending # None /\ a.ending # Some("")
                           THEN HasOption(c, "--ending", a.ending[1])
                           ELSE LacksOption(c, "--ending")
               /\ call.fn = "td_chatdownload"
                     => /\ c = td_chatdownload(a)
                        /\ IF a.beginning # None /\ a.beginning # Some("")
                           THEN HasOption(c, "--beginning", a.beginning[1])
                           ELSE LacksOption(c, "--beginning")
                        /\ IF a.ending # None /\ a.ending # Some("")
                           THEN HasOption(c, "--ending", a.ending[1])
                           ELSE LacksOption(c, "--ending")
               /\ call.fn = "td_chatrender"
                     => /\ c = td_chatrender(a)
                        /\ (c[Len(c)] = "--outline") <=> a.outline
                        /\ (Places(c, "--outline") # {}) <=> a.outline)
    /\ [][ call' # call
             => /\ call'.arg = call.arg /\ call'.fn = call.fn
                /\ UNCHANGED <<jobs, rec, jobs_order, q, disk, w, cj, dj, clock, env,
                               hist, jf, lj>> ]_vars

\* A video download with bandwidth 0, an empty beginning and an ending: the
\* command holds --bandwidth 0 and --ending, and no --beginning.
C29_Witness ==
    /\ call.done
    /\ call.fn = "td_videodownload"
    /\ call.arg.bandwidth = Some(0)
    /\ call.arg.beginning = Some("")
    /\ call.ret = <<"TwitchDownloaderCLI", "videodownload", "--id", "123",
                    "-o", "video.mp4", "--quality", "1080p", "--threads", "2",
                    "--bandwidth", "0", "--ending", "1:10:00",
                    "--temp-path", "TD_TEMP_DIR">>
\* Entries waiting in the queue, the entry the worker has taken and not yet
\* finished, and the submission that passed the capacity test and has not yet
\* put its entry.
Waiting == Len(q)
Busy == IF w.pc = "get" THEN 0 ELSE 1
Pending == IF cj.pc = "idle" THEN 0 ELSE 1

\* C30: the accepted jobs that are not finished, which are the entries waiting
\* in the queue and the one entry the worker has taken and is processing, are
\* never more than MAX_QUEUE + 1, a submission between its capacity test and
\* its put counted with the waiting ones.
C30_InFlightBounded ==
    /\ Waiting <= MAX_QUEUE
    /\ Waiting + Pending <= MAX_QUEUE
    /\ Waiting + Pending + Busy <= MAX_QUEUE + 1
    /\ Len(hist.accepted) = hist.deq + Waiting
    /\ Len(hist.accepted) - (hist.deq - Busy) <= MAX_QUEUE + 1

\* MAX_QUEUE entries wait while the worker runs a job.
C30_Witness ==
    /\ Waiting = MAX_QUEUE
    /\ w.pc = "read"
    /\ Job.status = "running"
    /\ Len(hist.accepted) - (hist.deq - Busy) = MAX_QUEUE + 1
\* C31: a job taken out of the table, by delete_job or by an eviction, while
\* its entry waited in the queue is never run: the worker that takes the entry
\* goes back to the queue without a preflight, a stage or a process, changes
\* no job and no file; no file of the job exists; and the removal leaves the
\* entry in the queue, where it counts until the worker takes it.
C31_RemovedQueuedNeverRuns ==
    /\ [](\A id \in hist.removedQueued :
             /\ id \notin jobs
             /\ id \notin Range(hist.ran)
             /\ ArtifactPaths(id) \cap disk = {}
             /\ w.job = id => w.pc = "lookup")
    /\ [][ /\ (w.job \in hist.removedQueued /\ w' # w)
                 => /\ w' = WorkerIdle
                    /\ UNCHANGED <<disk, q, jobs, jobs_order>>
                    /\ \A id \in (DOMAIN rec) \cap (DOMAIN rec') : rec'[id] = rec[id]
           /\ (jobs' # jobs /\ jobs' \subseteq jobs) => q' = q
           /\ \A id \in hist'.removedQueued \ hist.removedQueued :
                 InQueue(id) /\ id \in jobs /\ id \notin jobs' ]_vars

\* The only job accepted was removed while it waited; the worker has taken its
\* entry and waits for the next, having run nothing.
C31_Witness ==
    /\ hist.accepted = <<1>>
    /\ hist.removedQueued = {1}
    /\ hist.deq = 1
    /\ q = <<>>
    /\ w = WorkerIdle
    /\ hist.ran = <<>>
    /\ disk = {}
\* No operation on the table and the ordering index is under way.
RegistryAtRest == cj.pc \in {"idle", "put", "blocked"} /\ dj.pc = "idle"

\* C32: whenever no operation on the registry is under way, the ordering
\* index holds exactly the keys of the job table, each once; and no delete_job
\* call, also one that races with the eviction of the id it names, ends with
\* an error that is not the 404 of an unknown id.
C32_RegistryConsistent ==
    /\ RegistryAtRest
          => /\ Range(jobs_order) = jobs
             /\ Len(jobs_order) = Cardinality(jobs)
    /\ ~hist.delete500
\* No id occurs twice.
NoDuplicate(ids) == \A i, k \in 1..Len(ids) : ids[i] = ids[k] => i = k

\* C33: a list_jobs call, also one that overlaps create_job or delete_job,
\* returns no job twice and returns every job that was in the registry from
\* the beginning of the call to its end.
C33_ListExactlyOnce ==
    [][ (lj.pc = "iter" /\ lj'.pc = "idle")
          => /\ NoDuplicate(ListedIds(lj'.out))
             /\ lj'.always \subseteq Range(ListedIds(lj'.out)) ]_vars

\* A line of the log that an external tool printed and that holds one of the
\* texts hint_from_log looks for.
ToolSignature(log) ==
    \E i \in 1..Len(log) :
        /\ log[i] \in env.lines
        /\ Sigs(log[i]) \cup Sigs(Lower(log[i])) # {}

\* C34: the hint stored for a failed job is not empty only if a line that an
\* external tool printed holds a known signature; the stage header and the
\* command line never cause a hint, whatever the vod id and the job id.
C34_HintFromToolOutput ==
    [][ (w.pc = "except_error" /\ w' # w /\ rec'[w.job].hint # "")
          => ToolSignature(rec[w.job].log) ]_vars
====
